---- MODULE Spec2Model ----
(***************************************************************************)
(* Verification model of pygpc's grid / experimental-design engine         *)
(* (src/pygpc/Grid.py).                                                    *)
(*                                                                         *)
(* The module holds several state machines over disjoint groups of         *)
(* variables; each specification drives one group and leaves the others    *)
(* at their idle value:                                                    *)
(*   Spec     the Design Container of the random designs and               *)
(*            RandomGrid.extend_random_grid / Grid.create_gradient_grid    *)
(*   SpecFIM  FIM.get_fim_optiomal_grid_points and its worker              *)
(*   SpecESE  LHS.lhs_ese                                                  *)
(*   SpecSG   SparseGrid / TensorGrid construction                         *)
(*   SpecMerge  the merge pass of SparseGrid.calc_coords_weights           *)
(*   SpecLvl  the level and order bookkeeping of SparseGrid                *)
(*   SpecRnd  Random.__init__, draw by draw, on a seeded generator         *)
(*   SpecLHS  LHS.__init__: the choice of the refinement strategy          *)
(*   SpecSel  the constructors of L1 and FIM with their worker pool        *)
(*   SpecCT   Grid.get_denormalized_coordinates and                        *)
(*            Grid.get_normalized_coordinates on exact rationals           *)
(***************************************************************************)
EXTENDS Integers, Sequences, FiniteSets, TLC

VARIABLES grid, uuid, call, fim, ese, sg, rnd, ct, lhs, sel, mrg, lvl

vars == <<grid, uuid, call, fim, ese, sg, rnd, ct, lhs, sel, mrg, lvl>>

(***************************************************************************)
(* Generic helpers                                                         *)
(***************************************************************************)
Min2(a, b) == IF a <= b THEN a ELSE b

Max2(a, b) == IF a >= b THEN a ELSE b

Abs(a) == IF a < 0 THEN -a ELSE a

SeqsOfLen(S, n) == [1..n -> S]

\* numpy slice a[0:n]
Prefix(s, n) == SubSeq(s, 1, Min2(n, Len(s)))

(***************************************************************************)
(* Bounds of the model                                                     *)
(***************************************************************************)
\* largest n_grid a design is constructed with
MaxInit == 2

\* largest number of rows one extension call asks for or supplies
MaxAdd == 1

\* largest n_grid_new asked for, and largest size an explicit extension reaches
MaxTotal == 2

(***************************************************************************)
(* parameters_random: an ordered collection of RandomParameter instances.  *)
(* Normalized coordinates are integers; physical coordinates are integers  *)
(* because the limits and shapes below keep the transforms exact.          *)
(***************************************************************************)
Params ==
    << [pdf_type |-> "beta", pdf_shape |-> <<1, 1>>, pdf_limits |-> <<0, 4>>],
       [pdf_type |-> "norm", pdf_shape |-> <<3, 2>>, pdf_limits |-> <<0, 0>>] >>

\* Grid.dim = len(parameters_random)
Dim == Len(Params)

\* the normalized values a sampler can draw in one dimension
NormVals == {-1, 1}

Rows == [1..Dim -> NormVals]

\* the rows the samplers of the model draw
SampleRows == {r \in Rows : \A i_p \in 1..Dim : r[i_p] = r[1]}

\* Grid.get_denormalized_coordinates, one entry of the column of parameter
\* par, the entry given in units of 1/unit (unit = 1 for coordinates, 1000
\* for stencils)
DenormEntryOf(par, x, unit) ==
    IF par.pdf_type = "beta"
    THEN ((x + unit) * (par.pdf_limits[2] - par.pdf_limits[1])) \div 2
         + unit * par.pdf_limits[1]
    ELSE IF par.pdf_type \in {"norm", "normal"}
    THEN x * par.pdf_shape[2] + unit * par.pdf_shape[1]
    ELSE IF par.pdf_type = "gamma"
    THEN x \div par.pdf_shape[2] + unit * par.pdf_shape[3]
    ELSE 0

DenormEntry(x, i_p, unit) == DenormEntryOf(Params[i_p], x, unit)

\* Grid.get_denormalized_coordinates on one row
DenormRow(r) == [i_p \in 1..Dim |-> DenormEntry(r[i_p], i_p, 1)]

\* Grid.get_denormalized_coordinates on an array of rows
get_denormalized_coordinates(rs) == [j \in 1..Len(rs) |-> DenormRow(rs[j])]

(***************************************************************************)
(* The Design Container: one object of a RandomGrid subclass.              *)
(*   cls                  its class ("none" before construction)           *)
(*   coords, coords_norm  arrays of rows                                   *)
(*   coords_id            list of IDs (uuid4 values are modelled as fresh  *)
(*                        numbers taken from the counter uuid)             *)
(*   n_grid               the attribute n_grid                             *)
(*   has_gradient         coords_gradient is not None                      *)
(*   coords_gradient, coords_gradient_norm   arrays of dim x dim stencils, *)
(*                        in units of 1/1000                               *)
(*   weights0_halves      options["weights"][0] of the hybrids, in halves  *)
(*   gpc_grid_is_self     self.gpc.grid is this very object                *)
(*   has_reservoir        coords_norm_reservoir is not None (LHS)          *)
(***************************************************************************)
Classes == {"Random", "LHS", "L1", "L1_LHS", "LHS_L1", "FIM", "MCMC"}

NoGrid ==
    [cls |-> "none", coords |-> <<>>, coords_norm |-> <<>>, coords_id |-> <<>>,
     n_grid |-> 0, has_gradient |-> FALSE, coords_gradient |-> <<>>,
     coords_gradient_norm |-> <<>>, coords_gradient_id |-> <<>>,
     n_grid_gradient |-> 0, weights0_halves |-> 2, gpc_grid_is_self |-> FALSE,
     has_reservoir |-> FALSE]

\* [uuid.uuid4() for _ in range(n)], the counter standing at u
FreshIds(u, n) == [j \in 1..Max2(n, 0) |-> u + j]

\* np.vstack([a, b])
vstack(a, b) == a \o b

\* the coords setter (Grid.py 97-104): stores the array and recounts n_grid
SetCoords(g, value) == [g EXCEPT !.coords = value, !.n_grid = Len(value)]

\* the coords_norm setter (Grid.py 110-117)
SetCoordsNorm(g, value) == [g EXCEPT !.coords_norm = value, !.n_grid = Len(value)]

(***************************************************************************)
(* Grid.create_gradient_grid (delta = 1e-3)                                *)
(***************************************************************************)
ZeroStencil == [j \in 1..Dim |-> [i_dim \in 1..Dim |-> 0]]

\* coords_norm[pt, :] - delta[i_dim, :] for every i_dim, in units of 1/1000
StencilNorm(x) ==
    [j \in 1..Dim |-> [i_dim \in 1..Dim |->
        x[j] * 1000 - (IF i_dim = j THEN 1 ELSE 0)]]

\* get_denormalized_coordinates on one stencil (axis 1 is the parameter)
StencilDenorm(s) ==
    [j \in 1..Dim |-> [i_dim \in 1..Dim |-> DenormEntry(s[j][i_dim], j, 1000)]]

create_gradient_grid(g) ==
    LET n_grid_gradient == IF g.has_gradient THEN Len(g.coords_gradient_norm) ELSE 0
        n_zero == IF g.has_gradient THEN g.n_grid - n_grid_gradient ELSE g.n_grid
    IN
    IF n_zero < 0
    THEN \* np.zeros of a negative count
         [grid |-> g, outcome |-> "ValueError"]
    ELSE
    LET zeros == [j \in 1..n_zero |-> ZeroStencil]
        cg  == IF g.has_gradient THEN vstack(g.coords_gradient, zeros) ELSE zeros
        cgn == IF g.has_gradient THEN vstack(g.coords_gradient_norm, zeros) ELSE zeros
        \* the two setters (Grid.py 123-143)
        g1 == [g EXCEPT !.has_gradient = TRUE,
                        !.coords_gradient = cg,
                        !.coords_gradient_norm = cgn,
                        !.n_grid_gradient = Len(cgn),
                        !.coords_gradient_id =
                            IF g.has_gradient THEN @ ELSE FreshIds(0, Len(cg))]
        n_slot == Len(cgn) - n_grid_gradient
        n_src  == Len(g.coords_norm) - n_grid_gradient
    IN
    IF n_grid_gradient < Len(cg)
    THEN IF n_src # n_slot /\ n_src # 1
         THEN \* the slice assignment cannot broadcast
              [grid |-> g1, outcome |-> "ValueError"]
         ELSE
         LET src(pt) == IF n_src = 1 THEN g.coords_norm[n_grid_gradient + 1]
                        ELSE g.coords_norm[pt]
             cgn2 == [pt \in 1..Len(cgn) |->
                        IF pt <= n_grid_gradient THEN cgn[pt]
                        ELSE StencilNorm(src(pt))]
             cg2  == [pt \in 1..Len(cg) |->
                        IF pt <= n_grid_gradient THEN cg[pt]
                        ELSE StencilDenorm(cgn2[pt])]
         IN [grid |-> [g1 EXCEPT !.coords_gradient = cg2,
                                 !.coords_gradient_norm = cgn2,
                                 !.n_grid_gradient = Len(cg2) * Dim,
                                 !.coords_gradient_id = g.coords_id],
             outcome |-> "ok"]
    ELSE [grid |-> g1, outcome |-> "ok"]

(***************************************************************************)
(* Constructors called by extend_random_grid with grid_pre = self.         *)
(* Which rows a sampler or selector returns is the caller's random draw    *)
(* (rows); what the constructor does to grid_pre is modelled here.         *)
(***************************************************************************)
\* int(np.round(n * weights[0])), weights[0] = halves / 2: np.round rounds
\* a half to the even neighbour
RoundHalves(n, halves) ==
    LET twice == n * halves
        q == twice \div 2
    IN IF twice % 2 = 0 THEN q
       ELSE IF q % 2 = 0 THEN q ELSE q + 1

\* grid_pre.coords_norm = vstack(...); grid_pre.coords = vstack(...);
\* grid_pre.n_grid = grid_pre.coords_norm.shape[0]   (Grid.py 2504-2507, 2669-2672)
HybridAppendToPre(pre, part_norm) ==
    LET p1 == SetCoordsNorm(pre, vstack(pre.coords_norm, part_norm))
        p2 == SetCoords(p1, vstack(p1.coords, get_denormalized_coordinates(part_norm)))
    IN [p2 EXCEPT !.n_grid = Len(p2.coords_norm)]

\* L1_LHS.__init__ with grid_pre = pre: the first n_grid_L1 rows come from L1,
\* the others from LHS
L1_LHS_init(pre, n_grid, rows) ==
    LET n_grid_L1 == RoundHalves(n_grid, pre.weights0_halves)
        grid_L1 == SubSeq(rows, 1, n_grid_L1)
    IN [coords_norm |-> rows,
        pre |-> IF n_grid_L1 > 0 THEN HybridAppendToPre(pre, grid_L1) ELSE pre]

\* LHS_L1.__init__ with grid_pre = pre: the first n_grid_LHS rows come from LHS
LHS_L1_init(pre, n_grid, rows) ==
    LET n_grid_LHS == RoundHalves(n_grid, pre.weights0_halves)
        grid_LHS == SubSeq(rows, 1, n_grid_LHS)
    IN [coords_norm |-> rows,
        pre |-> IF n_grid_LHS > 0 THEN HybridAppendToPre(pre, grid_LHS) ELSE pre]

\* FIM.__init__ with grid_pre = pre: get_fim_optiomal_grid_points stacks every
\* accepted point on self.gpc.grid.coords_norm (Grid.py 2312)
FIM_init(pre, n_grid, rows) ==
    [coords_norm |-> rows,
     pre |-> IF pre.gpc_grid_is_self
             THEN SetCoordsNorm(pre, vstack(pre.coords_norm, rows))
             ELSE pre]

\* Random, LHS and L1 leave grid_pre alone
Plain_init(pre, n_grid, rows) == [coords_norm |-> rows, pre |-> pre]

\* new_grid = <class of self>(n_grid = n_grid_add, grid_pre = self, ...)
NewGrid(pre, n_grid, rows) ==
    IF pre.cls = "L1_LHS" THEN L1_LHS_init(pre, n_grid, rows)
    ELSE IF pre.cls = "LHS_L1" THEN LHS_L1_init(pre, n_grid, rows)
    ELSE IF pre.cls = "FIM" THEN FIM_init(pre, n_grid, rows)
    ELSE Plain_init(pre, n_grid, rows)

(***************************************************************************)
(* RandomGrid.extend_random_grid                                           *)
(*   a: the arguments, [has_n, n_grid_new, has_coords, has_coords_norm,    *)
(*      coords_norm, has_classifier, domain, gradient]; domain is the set  *)
(*      of rows classifier.predict maps to the requested domain            *)
(*   rows: the rows the samplers draw during the call                      *)
(*   u: the uuid counter                                                   *)
(***************************************************************************)
\* a stacking that puts the new rows in front of the old ones
AppendRowsInFront(g, new_norm, new) ==
    SetCoordsNorm(SetCoords(g, vstack(new, g.coords)), vstack(new_norm, g.coords_norm))

\* self.coords = vstack([self.coords, new]); self.coords_norm = vstack([...])
AppendRows(g, new_norm, new) ==
    SetCoordsNorm(SetCoords(g, vstack(g.coords, new)), vstack(g.coords_norm, new_norm))

\* Grid.py 1005-1011
ExtendFinish(g, n_grid_add, gradient, u) ==
    LET g1 == [g EXCEPT !.coords_id = @ \o FreshIds(u, n_grid_add)]
        g2 == [g1 EXCEPT !.n_grid = Len(g1.coords)]
    IN IF gradient THEN create_gradient_grid(g2)
       ELSE [grid |-> g2, outcome |-> "ok"]

\* the explicit branch with the domain check left out: the rows are committed
\* whatever the classifier predicts
ExtendExplicitUnchecked(g, a, u) ==
    ExtendFinish(AppendRows(g, a.coords_norm, get_denormalized_coordinates(a.coords_norm)),
                 Len(a.coords_norm), a.gradient, u)

\* the branch "elif coords is not None and coords_norm is not None"
\* (Grid.py 989-1000): with a classifier, every supplied row must be predicted
\* to lie in the domain before anything is stacked
ExtendExplicit(g, a, u) ==
    IF a.has_classifier /\ ~(\A j \in 1..Len(a.coords_norm) : a.coords_norm[j] \in a.domain)
    THEN [grid |-> g, outcome |-> "AssertionError"]
    ELSE ExtendFinish(AppendRows(g, a.coords_norm,
                                 get_denormalized_coordinates(a.coords_norm)),
                      Len(a.coords_norm), a.gradient, u)

\* a final branch that returns silently instead of raising
ExtendNoRequestSilent(g) == [grid |-> g, outcome |-> "ok"]

\* the final else branch (Grid.py 1002-1003): raise ValueError
ExtendNoRequest(g) == [grid |-> g, outcome |-> "ValueError"]

\* the classes with a branch in the classifier-free extension (Grid.py 916-946)
Extendable == {"Random", "LHS", "L1", "L1_LHS", "LHS_L1", "FIM"}

extend_random_grid(g, a, rows, u) ==
    IF a.has_n
    THEN LET n_grid_add == a.n_grid_new - g.n_grid IN
         IF n_grid_add > 0
         THEN IF ~a.has_classifier
              THEN IF g.cls \in Extendable
                   THEN LET new_grid == NewGrid(g, n_grid_add, rows) IN
                        ExtendFinish(AppendRows(new_grid.pre, new_grid.coords_norm,
                                         get_denormalized_coordinates(new_grid.coords_norm)),
                                     n_grid_add, a.gradient, u)
                   ELSE ExtendFinish(g, n_grid_add, a.gradient, u)
              ELSE IF g.cls = "Random"
                   THEN IF a.domain = {}
                        THEN \* no draw is ever accepted: while resample never ends
                             [grid |-> g, outcome |-> "diverges"]
                        ELSE ExtendFinish(AppendRows(g, rows, get_denormalized_coordinates(rows)),
                                          n_grid_add, a.gradient, u)
                   ELSE IF g.cls = "LHS"
                   THEN \* lhs_extend takes the shape of the reservoir; then
                        \* self.coords_reservoir (None) is subscripted as soon
                        \* as a point is accepted (Grid.py 970-974)
                        [grid |-> g,
                         outcome |-> IF ~g.has_reservoir THEN "IndexError"
                                     ELSE IF a.domain = {} THEN "diverges"
                                     ELSE "TypeError"]
                   ELSE \* no branch sets resample = False
                        [grid |-> g, outcome |-> "diverges"]
         ELSE ExtendFinish(g, n_grid_add, a.gradient, u)
    ELSE IF a.has_coords /\ a.has_coords_norm
    THEN ExtendExplicit(g, a, u)
    ELSE ExtendNoRequest(g)

\* how many rows the samplers draw in the call
DrawCount(g, a) ==
    IF a.has_n /\ a.n_grid_new - g.n_grid > 0
       /\ ( (~a.has_classifier /\ g.cls \in Extendable)
            \/ (a.has_classifier /\ g.cls = "Random" /\ a.domain # {}) )
    THEN a.n_grid_new - g.n_grid
    ELSE 0

(***************************************************************************)
(* Actions of the Design Container                                         *)
(***************************************************************************)
NoArgs ==
    [has_n |-> FALSE, n_grid_new |-> 0, has_coords |-> FALSE,
     has_coords_norm |-> FALSE, coords_norm |-> <<>>, has_classifier |-> FALSE,
     domain |-> {}, gradient |-> FALSE]

\* what call remembers of the arguments: all but the rows and the domain, and
\* whether classifier.predict puts every supplied row in the domain
ArgSummary(a) ==
    [has_n |-> a.has_n, n_grid_new |-> a.n_grid_new, has_coords |-> a.has_coords,
     has_coords_norm |-> a.has_coords_norm, has_classifier |-> a.has_classifier,
     in_domain |-> \A j \in 1..Len(a.coords_norm) : a.coords_norm[j] \in a.domain]

NoCall == [op |-> "none", outcome |-> "ok", a |-> ArgSummary(NoArgs), n_before |-> 0]

\* the classifier and domain arguments: none, or a classifier with the set of
\* rows it predicts to lie in the domain
Classifiers ==
    {[has_classifier |-> FALSE, domain |-> {}]}
    \cup {[has_classifier |-> TRUE, domain |-> d] : d \in SUBSET SampleRows}

GridInit ==
    /\ grid = NoGrid
    /\ uuid = 0
    /\ call = NoCall

\* the selector, the annealing loop and the quadrature grids are not running
OthersIdle ==
    /\ fim = [phase |-> "idle"]
    /\ ese = [phase |-> "idle"]
    /\ sg = [phase |-> "idle"]
    /\ rnd = [phase |-> "idle"]
    /\ ct = [phase |-> "idle"]
    /\ lhs = [phase |-> "idle"]
    /\ sel = [phase |-> "idle"]
    /\ mrg = [phase |-> "idle"]
    /\ lvl = [phase |-> "idle"]

\* <cls>(parameters_random, n_grid = n, gpc = gpc, options = options)
Construct ==
    /\ grid.cls = "none"
    /\ \E cls \in Classes, n \in 1..MaxInit, halves \in 1..2 :
         \E rows \in SeqsOfLen(SampleRows, n) :
           /\ cls \notin {"L1_LHS", "LHS_L1"} => halves = 2
           /\ IF cls = "MCMC"
              THEN \* RandomGrid.__init__ takes no seed argument (Grid.py 1806-1808)
                   /\ grid' = grid
                   /\ uuid' = uuid
                   /\ call' = [NoCall EXCEPT !.op = "construct", !.outcome = "TypeError"]
              ELSE /\ grid' = [NoGrid EXCEPT
                                 !.cls = cls,
                                 !.coords_norm = rows,
                                 !.coords = get_denormalized_coordinates(rows),
                                 !.coords_id = FreshIds(uuid, n),
                                 !.n_grid = n,
                                 !.weights0_halves = halves,
                                 !.has_reservoir = (cls = "LHS" /\ n > 1)]
                   /\ uuid' = uuid + n
                   /\ call' = [NoCall EXCEPT !.op = "construct"]
    /\ UNCHANGED <<fim, ese, sg, rnd, ct, lhs, sel, mrg, lvl>>

\* the caller's gpc.grid = grid (tests/test_pygpc_general.py 1376)
SetGpcGrid ==
    /\ grid.cls = "FIM"
    /\ ~grid.gpc_grid_is_self
    /\ grid' = [grid EXCEPT !.gpc_grid_is_self = TRUE]
    /\ call' = [NoCall EXCEPT !.op = "set_gpc_grid"]
    /\ UNCHANGED uuid
    /\ UNCHANGED <<fim, ese, sg, rnd, ct, lhs, sel, mrg, lvl>>

\* one call grid.extend_random_grid(**a), the samplers drawing rows
DoExtend(a, rows) ==
    LET r == extend_random_grid(grid, a, rows, uuid) IN
    /\ grid' = r.grid
    /\ uuid' = uuid + Len(r.grid.coords_id) - Len(grid.coords_id)
    /\ call' = [op |-> "extend", outcome |-> r.outcome, a |-> ArgSummary(a),
                n_before |-> grid.n_grid]

CanCall ==
    /\ grid.cls # "none"
    /\ call.outcome # "diverges"

\* extend_random_grid(n_grid_new = m, ...), with or without coords/coords_norm
\* passed along
ExtendByNumber ==
    /\ CanCall
    /\ \E m \in 1..MaxTotal, c \in Classifiers, gradient \in BOOLEAN,
          extra \in {<<>>} \cup SeqsOfLen(SampleRows, 1) :
         LET a == [has_n |-> TRUE, n_grid_new |-> m,
                   has_coords |-> extra # <<>>, has_coords_norm |-> extra # <<>>,
                   coords_norm |-> extra, has_classifier |-> c.has_classifier,
                   domain |-> c.domain, gradient |-> gradient]
         IN /\ m - grid.n_grid <= MaxAdd
            /\ m < grid.n_grid => m = MaxTotal
            /\ extra # <<>> => c.has_classifier
            /\ \E rows \in SeqsOfLen(IF c.has_classifier THEN c.domain ELSE SampleRows,
                                     DrawCount(grid, a)) :
                 DoExtend(a, rows)
    /\ UNCHANGED <<fim, ese, sg, rnd, ct, lhs, sel, mrg, lvl>>

\* extend_random_grid(coords = ..., coords_norm = ...)
ExtendByCoords ==
    /\ CanCall
    /\ \E k \in 1..MaxAdd, c \in Classifiers, gradient \in BOOLEAN :
         /\ Len(grid.coords) + k <= MaxTotal
         /\ \E given \in SeqsOfLen(SampleRows, k) :
              DoExtend([has_n |-> FALSE, n_grid_new |-> 0, has_coords |-> TRUE,
                        has_coords_norm |-> TRUE, coords_norm |-> given,
                        has_classifier |-> c.has_classifier, domain |-> c.domain,
                        gradient |-> gradient], <<>>)
    /\ UNCHANGED <<fim, ese, sg, rnd, ct, lhs, sel, mrg, lvl>>

\* extend_random_grid with no n_grid_new and not both of coords, coords_norm
ExtendAmbiguous ==
    /\ CanCall
    /\ \E has_coords \in BOOLEAN, has_coords_norm \in BOOLEAN, gradient \in BOOLEAN :
         /\ ~(has_coords /\ has_coords_norm)
         /\ DoExtend([NoArgs EXCEPT !.has_coords = has_coords,
                                    !.has_coords_norm = has_coords_norm,
                                    !.gradient = gradient], <<>>)
    /\ UNCHANGED <<fim, ese, sg, rnd, ct, lhs, sel, mrg, lvl>>

\* grid.create_gradient_grid()
CreateGradientGrid ==
    /\ CanCall
    /\ LET r == create_gradient_grid(grid) IN
         /\ grid' = r.grid
         /\ call' = [NoCall EXCEPT !.op = "create_gradient_grid",
                                   !.outcome = r.outcome,
                                   !.n_before = grid.n_grid]
    /\ UNCHANGED uuid
    /\ UNCHANGED <<fim, ese, sg, rnd, ct, lhs, sel, mrg, lvl>>

Init == GridInit /\ OthersIdle

Next ==
    \/ Construct
    \/ SetGpcGrid
    \/ ExtendByNumber
    \/ ExtendByCoords
    \/ ExtendAmbiguous
    \/ CreateGradientGrid

Spec == Init /\ [][Next]_vars

(***************************************************************************)
(* Properties of the Design Container under extension                      *)
(***************************************************************************)
\* n_grid == coords.shape[0] == coords_norm.shape[0] == len(coords_id)
SizesAgree(g) ==
    /\ g.n_grid = Len(g.coords)
    /\ g.n_grid = Len(g.coords_norm)
    /\ g.n_grid = Len(g.coords_id)

\* C1: an extend_random_grid call that returns normally on a design whose
\* n_grid agrees with the row counts of coords and coords_norm and with the
\* length of coords_id leaves a design where they agree again.
C1_SizesAgreeAfterExtend ==
    [][ (call'.op = "extend" /\ call'.outcome = "ok" /\ SizesAgree(grid))
        => SizesAgree(grid') ]_vars

C3_ExactlyTarget ==
    [][ (/\ call'.op = "extend"
         /\ call'.outcome = "ok"
         /\ call'.a.has_n
         /\ ~call'.a.has_classifier
         /\ SizesAgree(grid)
         /\ grid.n_grid < call'.a.n_grid_new)
        => /\ grid'.n_grid = call'.a.n_grid_new
           /\ Len(grid'.coords) = call'.a.n_grid_new
           /\ Len(grid'.coords_norm) = call'.a.n_grid_new
           /\ Len(grid'.coords_id) = call'.a.n_grid_new ]_vars

C5_NoRequestRaises ==
    [][ (/\ call'.op = "extend"
         /\ ~call'.a.has_n
         /\ ~(call'.a.has_coords /\ call'.a.has_coords_norm))
        => /\ call'.outcome = "ValueError"
           /\ grid'.coords = grid.coords
           /\ grid'.coords_norm = grid.coords_norm
           /\ grid'.coords_id = grid.coords_id
           /\ grid'.n_grid = grid.n_grid ]_vars

\* a call that passed only one of coords, coords_norm has just failed
C5_Witness ==
    /\ call.op = "extend"
    /\ call.outcome = "ValueError"
    /\ ~call.a.has_n
    /\ call.a.has_coords # call.a.has_coords_norm
    /\ grid.n_grid >= 1

(***************************************************************************)
(* The FIM selector (FIM.__init__, FIM.get_fim_optiomal_grid_points,       *)
(* FIM.calc_fim_matrix, workhorse_get_det_updated_fim_matrix).             *)
(* One random parameter; a point is its normalized coordinate.  The        *)
(* surrogate-matrix oracle gpc.create_gpc_matrix is outside src/: it is    *)
(* taken as the monomial basis of the degrees in Basis, which keeps the    *)
(* Fisher matrix and its determinant in the integers.                      *)
(***************************************************************************)
\* largest candidate pool (options["n_pool"]) and largest number of workers
MaxPool == 2

\* largest n_grid of a FIM construction
MaxRounds == 2

\* largest pre-existing design (grid_pre or coords_norm)
MaxPre == 1

\* the normalized coordinates a point can have
XVals == {-1, 0, 1}

\* gpc.basis.b: the degrees of the basis polynomials
Basis == <<0, 1>>

n_basis == Len(Basis)

RECURSIVE Pow(_, _)
Pow(x, k) == IF k = 0 THEN 1 ELSE x * Pow(x, k - 1)

\* gpc.create_gpc_matrix(b, x, gradient=False): one row per point
create_gpc_matrix(x) == [j \in 1..Len(x) |-> [k \in 1..n_basis |-> Pow(x[j], Basis[k])]]

\* np.zeros((n_basis, n_basis))
ZeroMatrix == [r \in 1..n_basis |-> [c \in 1..n_basis |-> 0]]

\* fim_matrix + np.outer(row, row)
AddOuter(fim_matrix, row) ==
    [r \in 1..n_basis |-> [c \in 1..n_basis |-> fim_matrix[r][c] + row[r] * row[c]]]

RECURSIVE SumOuter(_, _, _)
SumOuter(fim_matrix, gpc_matrix, j) ==
    IF j > Len(gpc_matrix) THEN fim_matrix
    ELSE SumOuter(AddOuter(fim_matrix, gpc_matrix[j]), gpc_matrix, j + 1)

\* FIM.calc_fim_matrix
calc_fim_matrix(gpc_matrix) == SumOuter(ZeroMatrix, gpc_matrix, 1)

\* np.linalg.det of an n_basis x n_basis matrix (n_basis = 2)
det(m) == m[1][1] * m[2][2] - m[1][2] * m[2][1]

\* misc.compute_chunks(seq, num): num contiguous chunks, in order
compute_chunks(seq, num) ==
    [k \in 1..num |->
        SubSeq(seq, ((k - 1) * Len(seq)) \div num + 1, (k * Len(seq)) \div num)]

\* workhorse_get_det_updated_fim_matrix on one chunk: fim_matrix is the
\* worker's copy, and "fim_matrix += np.outer(new_row, new_row)" updates that
\* copy in place for every candidate of the chunk
RECURSIVE workhorse_get_det_updated_fim_matrix(_, _, _)
workhorse_get_det_updated_fim_matrix(coords_norm_list, fim_matrix, i_c) ==
    IF i_c > Len(coords_norm_list) THEN <<>>
    ELSE LET new_row == create_gpc_matrix(<<coords_norm_list[i_c]>>)[1]
             updated == AddOuter(fim_matrix, new_row)
         IN <<det(updated)>>
            \o workhorse_get_det_updated_fim_matrix(coords_norm_list, updated, i_c + 1)

\* np.concatenate
RECURSIVE concatenate(_, _)
concatenate(parts, k) ==
    IF k > Len(parts) THEN <<>> ELSE parts[k] \o concatenate(parts, k + 1)

\* pool.map(workhorse_partial, chunks): every task unpickles its own copy of
\* fim_matrix
pool_map(chunks, fim_matrix) ==
    [k \in 1..Len(chunks) |-> workhorse_get_det_updated_fim_matrix(chunks[k], fim_matrix, 1)]

\* np.argmax: the first index of the largest entry
argmax(d) ==
    CHOOSE j \in 1..Len(d) :
        /\ \A k \in 1..Len(d) : d[k] <= d[j]
        /\ \A k \in 1..(j - 1) : d[k] < d[j]

FimIdle == [phase |-> "idle"]

\* FIM.__init__ up to the call of get_fim_optiomal_grid_points (Grid.py
\* 2243-2251).  x0 are the points gpc_matrix is first built from: the
\* supplied coords_norm, else grid_pre.coords_norm, else the rows of a fresh
\* Random grid that also becomes gpc.grid.  gpc_grid is gpc.grid.coords_norm:
\* the rows of grid_pre when gpc.grid is that object, else those of the grid
\* the gpc object holds (other).
FIMConstruct ==
    /\ fim.phase = "idle"
    /\ \E n_grid \in 1..MaxRounds, n_pool \in 1..MaxPool, n_cpu \in 1..MaxPool,
          mode \in {"coords_norm", "grid_pre", "neither"},
          gpc_grid_is_grid_pre \in BOOLEAN :
         \E x0 \in UNION {SeqsOfLen(XVals, n) : n \in 1..Max2(MaxPre, n_basis)},
            other \in SeqsOfLen(XVals, 1) :
           /\ mode = "neither" => Len(x0) = n_basis /\ ~gpc_grid_is_grid_pre
           /\ mode # "neither" => Len(x0) <= MaxPre
           /\ mode = "coords_norm" => ~gpc_grid_is_grid_pre
           /\ fim' = [phase |-> "select",
                      mode |-> mode,
                      x0 |-> x0,
                      gpc_grid |-> IF mode = "neither" \/ gpc_grid_is_grid_pre
                                   THEN x0 ELSE other,
                      gpc_matrix |-> create_gpc_matrix(x0),
                      n_grid |-> n_grid, n_pool |-> n_pool, n_cpu |-> n_cpu,
                      i |-> 0, fim_matrix |-> ZeroMatrix, pool |-> <<>>,
                      det |-> <<>>, coords_norm_opt |-> <<>>, coords_norm |-> <<>>]
    /\ UNCHANGED <<grid, uuid, call, ese, sg, rnd, ct, lhs, sel, mrg, lvl>>

\* one pass of "for i in range(n_grid_add)" (Grid.py 2298-2315)
FIMRound ==
    /\ fim.phase = "select"
    /\ fim.i < fim.n_grid
    /\ \E grid_test \in SeqsOfLen(XVals, fim.n_pool) :
         LET fim_matrix == calc_fim_matrix(fim.gpc_matrix)
             chunks == compute_chunks(grid_test, fim.n_cpu)
             d == concatenate(pool_map(chunks, fim_matrix), 1)
             coords_opt == grid_test[argmax(d)]
             gpc_grid == vstack(fim.gpc_grid, <<coords_opt>>)
         IN fim' = [fim EXCEPT !.i = @ + 1,
                               !.fim_matrix = fim_matrix,
                               !.pool = grid_test,
                               !.det = d,
                               !.gpc_grid = gpc_grid,
                               !.gpc_matrix = create_gpc_matrix(gpc_grid),
                               !.coords_norm_opt = Append(@, coords_opt)]
    /\ UNCHANGED <<grid, uuid, call, ese, sg, rnd, ct, lhs, sel, mrg, lvl>>

\* return coords_norm_opt; self.coords_norm = ... (Grid.py 2253, 2317-2319)
FIMReturn ==
    /\ fim.phase = "select"
    /\ fim.i = fim.n_grid
    /\ fim' = [fim EXCEPT !.phase = "done", !.coords_norm = fim.coords_norm_opt]
    /\ UNCHANGED <<grid, uuid, call, ese, sg, rnd, ct, lhs, sel, mrg, lvl>>

InitFIM ==
    /\ GridInit
    /\ fim = FimIdle
    /\ ese = [phase |-> "idle"]
    /\ sg = [phase |-> "idle"]
    /\ rnd = [phase |-> "idle"]
    /\ ct = [phase |-> "idle"]
    /\ lhs = [phase |-> "idle"]
    /\ sel = [phase |-> "idle"]
    /\ mrg = [phase |-> "idle"]
    /\ lvl = [phase |-> "idle"]

NextFIM ==
    \/ FIMConstruct
    \/ FIMRound
    \/ FIMReturn

SpecFIM == InitFIM /\ [][NextFIM]_vars

\* C6: after a scoring pass, the score of every candidate of the pool is
\* det(F + c_row^T c_row), F the Fisher matrix the pass started from.
C6_ScoreIsRankOneUpdate ==
    (fim.phase # "idle" /\ fim.i >= 1)
    => \A j \in 1..Len(fim.pool) :
         fim.det[j] = det(AddOuter(fim.fim_matrix, create_gpc_matrix(<<fim.pool[j]>>)[1]))

\* C7: the Fisher matrix used in round i is the sum of row^T row over the
\* rows of the pre-existing design together with the i-1 points accepted in
\* the earlier rounds.
C7_FisherKeepsEarlierRows ==
    (fim.phase # "idle" /\ fim.i >= 1)
    => fim.fim_matrix =
         calc_fim_matrix(create_gpc_matrix(
             vstack(fim.x0, Prefix(fim.coords_norm_opt, fim.i - 1))))

\* C8: after each accepted point the determinant of the running Fisher
\* matrix has not decreased, and the accepted point is one whose updated
\* determinant is maximal among the candidates of the round's pool.
C8_DeterminantGrows ==
    (fim.phase # "idle" /\ fim.i >= 1)
    => /\ det(calc_fim_matrix(fim.gpc_matrix)) >= det(fim.fim_matrix)
       /\ \A j \in 1..Len(fim.pool) :
            det(AddOuter(fim.fim_matrix, create_gpc_matrix(<<fim.pool[j]>>)[1]))
            <= det(AddOuter(fim.fim_matrix,
                            create_gpc_matrix(<<fim.coords_norm_opt[fim.i]>>)[1]))

(***************************************************************************)
(* LHS.lhs_ese: the enhanced stochastic evolutionary refinement of a       *)
(* Latin Hypercube design.  A design has Dim + 1 rows whose columns are    *)
(* permutations of the strata 0..Dim (lhs_initial puts one point in every  *)
(* stratum of every column).  Phi is carried as Phi^p scaled by PhiScale,  *)
(* an integer; x |-> x^(1/p) is strictly increasing, so every comparison   *)
(* of two Phi values in the code is the same comparison of the integers.   *)
(***************************************************************************)
\* cap of the inner loop, inner_loop = min(20 * dim, 100)
MaxInner == 2

\* cap of the outer loop, outer_loop = min(int(1.5 * dim), 30)
MaxOuter == 2

\* J = 25 exchanged designs are built in every inner pass
J == 25

\* p = 10, the power of the Phi-p criterion
p == 10

n_ese == Dim + 1

inner_loop == Min2(Min2(20 * Dim, 100), MaxInner)

outer_loop == Min2(Min2((3 * Dim) \div 2, 30), MaxOuter)

\* a common multiple of d^p for the squared distances 2, 5, 8 of the designs
PhiScale == Pow(2, 15) * Pow(5, 5)

Perms == {f \in [1..n_ese -> 0..(n_ese - 1)] : \A a, b \in 1..n_ese : a # b => f[a] # f[b]}

\* the designs lhs_initial can return
LhsDesigns ==
    {[r \in 1..n_ese |-> [k \in 1..Dim |-> cols[k][r]]] : cols \in [1..Dim -> Perms]}

\* squared Euclidean distance of two rows
Dist2(a, b) ==
    LET RECURSIVE S(_)
        S(k) == IF k = 0 THEN 0 ELSE (a[k] - b[k]) * (a[k] - b[k]) + S(k - 1)
    IN S(Dim)

\* d ** (-p), d given by its square, scaled by PhiScale
InvPow(d2) == PhiScale \div Pow(d2, p \div 2)

\* the sum of f over a finite set of row indices
RECURSIVE SumOver(_, _)
SumOver(f, S) ==
    IF S = {} THEN 0
    ELSE LET x == CHOOSE x \in S : TRUE IN f[x] + SumOver(f, S \ {x})

\* LHS.PhiP: (pdist(x) ** (-p)).sum(), the root left out
PhiP(x) ==
    LET pairs == {pr \in (1..Len(x)) \X (1..Len(x)) : pr[1] < pr[2]}
    IN SumOver([pr \in pairs |-> InvPow(Dist2(x[pr[1]], x[pr[2]]))], pairs)

\* LHS.PhiP_exchange with the rows i1, i2 it draws: the updated criterion
\* and the design with column k of the two rows swapped
PhiP_exchange(P, k, Phi, i1, i2) ==
    LET others == (1..Len(P)) \ {i1, i2}
        sq(v) == v * v
        dist1(r) == Dist2(P[i1], P[r])
        dist2(r) == Dist2(P[i2], P[r])
        d1(r) == dist1(r) + sq(P[i2][k] - P[r][k]) - sq(P[i1][k] - P[r][k])
        d2(r) == dist2(r) - sq(P[i2][k] - P[r][k]) + sq(P[i1][k] - P[r][k])
    IN [res |-> Phi + SumOver([r \in others |->
                          InvPow(d1(r)) - InvPow(dist1(r))
                          + InvPow(d2(r)) - InvPow(dist2(r))], others),
        P |-> [P EXCEPT ![i1][k] = P[i2][k], ![i2][k] = P[i1][k]]]

\* the pairs of rows an exchange can draw (fixed_index is empty)
ExchangePairs == {pr \in (1..n_ese) \X (1..n_ese) : pr[1] < pr[2]}

\* an exchange that draws its rows without looking at fixed_index
AnyPairs(fixed_index) == ExchangePairs

\* the pairs of rows an exchange can draw: "while i1 in fixed_index",
\* "while i2 == i1 or i2 in fixed_index" (Grid.py 1478-1485)
FreePairs(fixed_index) ==
    {pr \in ExchangePairs : pr[1] \notin fixed_index /\ pr[2] \notin fixed_index}

\* always replacing the retained design by the accepted one
RetainAccepted(e, Phi, P_) ==
    [e EXCEPT !.P_best = P_, !.Phi_best = Phi, !.n_imp = @ + 1]

\* "if Phi < Phi_best: P_best = P_; Phi_best = Phi; n_imp = n_imp + 1"
\* (Grid.py 1712-1716)
RetainBest(e, Phi, P_) ==
    IF Phi < e.Phi_best
    THEN [e EXCEPT !.P_best = P_, !.Phi_best = Phi, !.n_imp = @ + 1]
    ELSE e

\* the setup of lhs_ese (Grid.py 1660-1681) and the head of the first outer
\* pass.  T is t0 * 0.8^T.e8 * 0.7^T.e7 * 0.9^T.e9.
ESEStart ==
    /\ ese.phase = "idle"
    /\ \E P0 \in LhsDesigns, m \in 0..(n_ese - 2) :
         \* with a grid_pre of m rows lhs_initial puts them first and
         \* fixed_index = [*range(m)]; at least two rows are new
         ese' = [phase |-> "inner", P_ |-> P0, Phi |-> PhiP(P0),
                 P_best |-> P0, Phi_best |-> PhiP(P0), Phi_oldbest |-> PhiP(P0),
                 z |-> 0, i |-> 0, n_acpt |-> 0, n_imp |-> 0,
                 T |-> [e8 |-> 0, e7 |-> 0, e9 |-> 0],
                 fixed_index |-> 1..m]
    /\ UNCHANGED <<grid, uuid, call, fim, sg, rnd, ct, lhs, sel, mrg, lvl>>

\* one pass of the inner loop (Grid.py 1691-1716): the J exchanges it draws
\* are the pairs of tried; the threshold T * rand is not below zero, so a
\* design that is not worse is accepted, a worse one may be
ESEInner ==
    /\ ese.phase = "inner"
    /\ ese.i < inner_loop
    /\ \E tried \in (SUBSET FreePairs(ese.fixed_index)) \ {{}}, accept \in BOOLEAN :
         /\ Cardinality(tried) <= J
         /\ LET modulo == (ese.i + 1) % Dim
                l(pr) == PhiP_exchange(ese.P_, modulo + 1, ese.Phi, pr[1], pr[2])
            IN \E k \in tried :
                 /\ \A o \in tried : l(k).res <= l(o).res
                 /\ LET Phi_try == l(k).res
                        e1 == [ese EXCEPT !.i = @ + 1]
                    IN /\ Phi_try <= ese.Phi => accept
                       /\ ese' = IF accept
                                 THEN RetainBest([e1 EXCEPT !.Phi = Phi_try,
                                                            !.n_acpt = @ + 1,
                                                            !.P_ = l(k).P],
                                                 Phi_try, l(k).P)
                                 ELSE e1
    /\ UNCHANGED <<grid, uuid, call, fim, sg, rnd, ct, lhs, sel, mrg, lvl>>

\* the improvement test read as "Phi_best has improved in the pass"
HasImproved(e) == e.Phi_best < e.Phi_oldbest

\* "if Phi_best - Phi_oldbest < tol" (Grid.py 1721), tol = 1e-3 and Phi
\* scaled by PhiScale: it holds whenever Phi_best is not above Phi_oldbest
BelowTol(e) == e.Phi_best - e.Phi_oldbest < PhiScale \div 1000

\* the update of T at the end of an outer pass (Grid.py 1718-1732)
TSchedule(e) ==
    LET acpt == 10 * e.n_acpt >= inner_loop
    IN IF BelowTol(e)
       THEN IF acpt /\ e.n_imp < e.n_acpt
            THEN [e.T EXCEPT !.e8 = @ + 1]
            ELSE IF acpt /\ e.n_imp = e.n_acpt
            THEN e.T
            ELSE [e.T EXCEPT !.e8 = @ - 1]
       ELSE IF 10 * e.n_acpt <= inner_loop
            THEN [e.T EXCEPT !.e7 = @ - 1]
            ELSE [e.T EXCEPT !.e9 = @ + 1]

\* the tail of an outer pass (Grid.py 1718-1732) and the head of the next one
\* (Grid.py 1685-1687), or the return of P_best
ESEOuterEnd ==
    /\ ese.phase = "inner"
    /\ ese.i = inner_loop
    /\ LET T == TSchedule(ese)
       IN ese' = IF ese.z + 1 < outer_loop
                 THEN [ese EXCEPT !.T = T, !.z = @ + 1, !.i = 0,
                                  !.Phi_oldbest = ese.Phi_best,
                                  !.n_acpt = 0, !.n_imp = 0]
                 ELSE [ese EXCEPT !.T = T, !.z = @ + 1, !.phase = "done"]
    /\ UNCHANGED <<grid, uuid, call, fim, sg, rnd, ct, lhs, sel, mrg, lvl>>

InitESE ==
    /\ GridInit
    /\ fim = FimIdle
    /\ ese = [phase |-> "idle"]
    /\ sg = [phase |-> "idle"]
    /\ rnd = [phase |-> "idle"]
    /\ ct = [phase |-> "idle"]
    /\ lhs = [phase |-> "idle"]
    /\ sel = [phase |-> "idle"]
    /\ mrg = [phase |-> "idle"]
    /\ lvl = [phase |-> "idle"]

NextESE ==
    \/ ESEStart
    \/ ESEInner
    \/ ESEOuterEnd

SpecESE == InitESE /\ [][NextESE]_vars

\* C9: Phi_best never increases in a step of lhs_ese, at the end of an outer
\* pass it is not above its value at the start of the pass, and P_best is
\* replaced only in a step that accepts a design whose Phi is strictly below
\* the Phi_best of before.
C9_PhiBestNeverIncreases ==
    [][ (ese.phase = "inner")
        => /\ ese'.Phi_best <= ese.Phi_best
           /\ (ese.i = inner_loop => ese.Phi_best <= ese.Phi_oldbest)
           /\ (ese'.P_best # ese.P_best \/ ese'.n_imp > ese.n_imp)
              => /\ ese'.n_acpt = ese.n_acpt + 1
                 /\ ese'.Phi < ese.Phi_best
                 /\ ese'.P_best = ese'.P_
                 /\ ese'.Phi_best = ese'.Phi ]_vars

\* a worse design has been accepted after an improvement: Phi lies above the
\* retained Phi_best, which lies below the Phi_best the pass started with
C9_Witness ==
    /\ ese.phase = "inner"
    /\ ese.n_imp >= 1
    /\ ese.Phi_best < ese.Phi_oldbest
    /\ ese.Phi > ese.Phi_best
    /\ ese.P_ # ese.P_best


\* the values of column k of a design, as a function that counts them
ColumnCount(P, k) ==
    [v \in 0..(n_ese - 1) |-> Cardinality({r \in 1..Len(P) : P[r][k] = v})]

\* Q is P with the entries of column k of two distinct rows outside
\* fixed_index exchanged
IsExchange(P, Q, k, fixed_index) ==
    \E i1, i2 \in (1..Len(P)) \ fixed_index :
       /\ i1 # i2
       /\ Q = [P EXCEPT ![i1][k] = P[i2][k], ![i2][k] = P[i1][k]]

\* C25: during lhs_ese with a grid_pre of m rows the rows 0..m-1 of the
\* working design are never changed; every proposal exchanges the entries of
\* the single column k = (i+1) mod dim between two distinct rows that are not
\* fixed; so each column of P_best holds the values of the same column of
\* the initial design (a Latin hypercube column: each stratum once).
C25_FixedRowsAndColumns ==
    /\ [](ese.phase \in {"inner", "done"} =>
            \A k \in 1..Dim :
               /\ ColumnCount(ese.P_best, k) = [v \in 0..(n_ese - 1) |-> 1]
               /\ ColumnCount(ese.P_, k) = [v \in 0..(n_ese - 1) |-> 1])
    /\ [][ (ese.phase = "inner" /\ ese'.phase \in {"inner", "done"})
           => /\ \A r \in ese.fixed_index :
                   /\ ese'.P_[r] = ese.P_[r]
                   /\ ese'.P_best[r] = ese.P_best[r]
              /\ ese'.fixed_index = ese.fixed_index
              /\ \/ ese'.P_ = ese.P_
                 \/ IsExchange(ese.P_, ese'.P_, ((ese.i + 1) % Dim) + 1, ese.fixed_index)
              /\ ese'.P_best \in {ese.P_best, ese'.P_}
              /\ \A k \in 1..Dim : ColumnCount(ese'.P_, k) = ColumnCount(ese.P_, k) ]_vars

\* with one row of grid_pre, two proposals have been accepted: the first
\* one improved the retained design, the working design has moved on
C25_Witness ==
    /\ ese.phase = "inner"
    /\ ese.fixed_index = {1}
    /\ ese.n_imp >= 1
    /\ ese.n_acpt >= 2
    /\ ese.P_best # ese.P_


\* C28: in lhs_ese the threshold T stays strictly positive and after every
\* outer pass it is exactly one of 0.8*T, T or T/0.8: Phi_best never exceeds
\* Phi_oldbest, so the test Phi_best - Phi_oldbest < tol always holds and the
\* branch that updates T by T/0.7 or 0.9*T is never taken; T is raised
\* (T/0.8) exactly when the acceptance rate of the pass is below 0.1 and
\* lowered (0.8*T) exactly when it is at least 0.1 and the improvement rate
\* is below the acceptance rate.
C28_ThresholdSchedule ==
    /\ [](ese.phase \in {"inner", "done"} =>
            \* t0 = 0.005 * PhiP(P0) and T = t0 * 0.8^e8
            /\ ese.Phi > 0
            /\ ese.Phi_best > 0
            /\ ese.T.e7 = 0
            /\ ese.T.e9 = 0)
    /\ [][ (ese.phase = "inner" /\ ese.i = inner_loop /\ ese'.z = ese.z + 1)
           => /\ BelowTol(ese)
              /\ ese'.T.e8 \in {ese.T.e8 + 1, ese.T.e8, ese.T.e8 - 1}
              /\ ese'.T.e8 = ese.T.e8 - 1 <=> 10 * ese.n_acpt < inner_loop
              /\ ese'.T.e8 = ese.T.e8 + 1
                    <=> (10 * ese.n_acpt >= inner_loop /\ ese.n_imp < ese.n_acpt) ]_vars

\* T was raised in the first pass, which improved nothing, and lowered in
\* the last one, which accepted a design that was no improvement
C28_Witness ==
    /\ ese.phase = "done"
    /\ ese.z = 2
    /\ ese.T.e8 = 0
    /\ ese.n_acpt >= 1
    /\ ese.n_imp < ese.n_acpt
    /\ ese.Phi_best = ese.Phi_oldbest

(***************************************************************************)
(* SparseGrid and TensorGrid construction.                                 *)
(* The one-dimensional quadrature providers, get_multi_indices and         *)
(* get_cartesian_product live outside src/.  A rule of order n is taken    *)
(* to have n distinct symmetric knots and n positive weights of sum 2; the *)
(* clenshaw_curtis rules of the orders 1, 3, 5, ... are nested, the jacobi *)
(* rules share the knot 0 of the odd orders only.  Knots are integers in   *)
(* units of 1/KnotUnit, weights even integers in units of 1/WeightUnit.    *)
(***************************************************************************)
\* largest entry of options["level"]
MaxLevel == 1

\* the rule families of the model that both builders dispatch on
GridTypes == {"jacobi", "clenshaw_curtis"}

\* a grid_type entry that no branch of the builders tests for
UnknownGridType == "unknown_rule"

\* every entry of options["grid_type"] is a rule family
Recognized(grid_type) == \A i_p \in DOMAIN grid_type : grid_type[i_p] \in GridTypes

\* lcm(1..9)
KnotUnit == Pow(2, 3) * Pow(3, 2) * 5 * 7

\* the unit of coords_norm and coords: 1/(1000 * KnotUnit)
CoordUnit == 1000 * KnotUnit

\* the unit of a one-dimensional weight: 1/WeightUnit
WeightUnit == 2 * 5 * 7

\* the weights of a rule of order n (n <= 5): positive, symmetric, even
\* integers in units of 1/WeightUnit that sum to 2, the measure of [-1, 1]
QuadratureWeights(n) ==
    [j \in 1..n |-> (12 * WeightUnit * j * (n + 1 - j)) \div (n * (n + 1) * (n + 2))]

\* Quadrature.get_quadrature_jacobi_1d(n, ...)
get_quadrature_jacobi_1d(n) ==
    [knots |-> [j \in 1..n |-> ((2 * j - n - 1) * KnotUnit) \div n],
     weights |-> QuadratureWeights(n)]

\* Quadrature.get_quadrature_clenshaw_curtis_1d(n)
get_quadrature_clenshaw_curtis_1d(n) ==
    [knots |-> IF n = 1 THEN <<0>>
               ELSE [j \in 1..n |-> ((2 * j - n - 1) * KnotUnit) \div (n - 1)],
     weights |-> QuadratureWeights(n)]

\* the dispatch on grid_type[i_p] (Grid.py 369-394, 656-690)
get_quadrature_1d(grid_type, n) ==
    IF grid_type = "jacobi" THEN get_quadrature_jacobi_1d(n)
    ELSE get_quadrature_clenshaw_curtis_1d(n)

\* misc.get_cartesian_product(arrays): every combination, one per row
RECURSIVE get_cartesian_product(_)
get_cartesian_product(arrays) ==
    IF Len(arrays) = 0 THEN << <<>> >>
    ELSE LET head == get_cartesian_product(SubSeq(arrays, 1, Len(arrays) - 1))
             last == arrays[Len(arrays)]
         IN [n \in 1..(Len(head) * Len(last)) |->
                Append(head[((n - 1) \div Len(last)) + 1], last[((n - 1) % Len(last)) + 1])]

\* np.prod(row), np.sum(row)
RECURSIVE Prod(_, _)
Prod(row, k) == IF k = 0 THEN 1 ELSE row[k] * Prod(row, k - 1)

RECURSIVE Sum(_, _)
Sum(row, k) == IF k = 0 THEN 0 ELSE row[k] + Sum(row, k - 1)

\* misc.get_multi_indices(order, order_max, interaction_order = dim,
\* order_max_norm = 1.): the multi-indices below order whose sum is at most
\* order_max
get_multi_indices(order, order_max) ==
    LET InSimplex(l) == Sum(l, Len(l)) <= order_max
    IN SelectSeq(get_cartesian_product(
                     [i_p \in 1..Len(order) |-> [l \in 1..(order[i_p] + 1) |-> l - 1]]),
                 InSimplex)

\* the rescaling of a column of a normal parameter whose rule is not
\* hermite (factor 1.960), Grid.py 409-412 and 790-792; the result in units
\* of 1/CoordUnit
Rescale(rows, dim, grid_type) ==
    [j \in 1..Len(rows) |-> [i_p \in 1..dim |->
        IF Params[i_p].pdf_type \in {"norm", "normal"} /\ grid_type[i_p] # "hermite"
        THEN rows[j][i_p] * 1960
        ELSE rows[j][i_p] * 1000]]

\* Grid.get_denormalized_coordinates on rows in units of 1/CoordUnit
Denormalize(rows, dim) ==
    [j \in 1..Len(rows) |-> [i_p \in 1..dim |-> DenormEntry(rows[j][i_p], i_p, CoordUnit)]]

\* TensorGrid.__init__ (Grid.py 361-424)
TensorGrid(dim, grid_type, n_dim) ==
    LET \* the else branch (Grid.py 394-397) builds an AttributeError, does
        \* not raise it, and goes on with knots = [] and weights = []
        rule(i_p) == IF grid_type[i_p] \in GridTypes
                     THEN get_quadrature_1d(grid_type[i_p], n_dim[i_p])
                     ELSE [knots |-> <<>>, weights |-> <<>>]
        knots_dim_list == [i_p \in 1..dim |-> rule(i_p).knots]
        weights_dim_list == [i_p \in 1..dim |-> rule(i_p).weights]
        coords_norm == Rescale(get_cartesian_product(knots_dim_list), dim, grid_type)
        w == get_cartesian_product(weights_dim_list)
    IN [outcome |-> "ok",
        n_dim |-> n_dim,
        coords_norm |-> coords_norm,
        weights |-> [j \in 1..Len(w) |-> Prod(w[j], dim) \div Pow(2, dim)],
        coords |-> Denormalize(coords_norm, dim),
        n_grid |-> Len(coords_norm),
        coords_id |-> FreshIds(0, Len(coords_norm))]

\* SparseGrid.calc_multi_indices for a rule that is neither fejer2 nor
\* patterson: level_sequence is 0..level; order_sequence is 1, 3, 5, 9, ...
\* ('exp') or 1, 2, 3, ... ('lin')
calc_multi_indices(level, order_sequence_type) ==
    [i_p \in 1..Len(level) |-> [l1 \in 1..(level[i_p] + 1) |->
        IF order_sequence_type = "exp"
        THEN (IF l1 = 1 THEN 1 ELSE Pow(2, l1 - 1) + 1)
        ELSE l1]]

\* SparseGrid.calc_l_level (no fejer2 rule)
calc_l_level(dim, level, level_max, interaction_order) ==
    LET all == IF dim = 1
               THEN [l1 \in 1..(level_max + 1) |-> <<l1 - 1>>]
               ELSE get_multi_indices([i_p \in 1..dim |-> level_max], level_max)
        BelowLevel(l) == \A i_p \in 1..dim : l[i_p] <= level[i_p]
        BelowInteraction(l) ==
            Cardinality({i_p \in 1..dim : l[i_p] > 0}) <= interaction_order
        capped == SelectSeq(all, BelowLevel)
    IN IF interaction_order < dim THEN SelectSeq(capped, BelowInteraction) ELSE capped

\* a difference rule that forgets to subtract the rule of the level below
calc_grid_plain(grid_type, order_sequence, i_p, i_level) ==
    get_quadrature_1d(grid_type[i_p], order_sequence[i_p][i_level + 1])

\* what the variables knots_l, weights_l, knots_l_1, weights_l_1 of
\* calc_grid hold in a pass for dimension i_p whose grid_type matches no
\* branch (Grid.py 654-690): the values of the last pass of the nearest
\* dimension before i_p that has a rule family, or the initial 0 (which
\* np.asarray and get_cartesian_product take for one knot 0 of weight 0)
CarriedRules(grid_type, order_sequence, i_p) ==
    LET before == {i_q \in 1..(i_p - 1) : grid_type[i_q] \in GridTypes}
        zero == [knots |-> <<0>>, weights |-> <<0>>]
    IN IF before = {} THEN [l |-> zero, l_1 |-> zero]
       ELSE LET i_q == CHOOSE i \in before : \A k \in before : k <= i
                n_levels == Len(order_sequence[i_q])
                \* order_sequence[i_q][i_level - 1] at the last level; the
                \* index -1 of level 0 is the last entry
                prev == IF n_levels = 1 THEN 1 ELSE n_levels - 1
            IN [l |-> get_quadrature_1d(grid_type[i_q], order_sequence[i_q][n_levels]),
                l_1 |-> get_quadrature_1d(grid_type[i_q], order_sequence[i_q][prev])]

\* SparseGrid.calc_grid: the difference rule of level i_level in dimension
\* i_p, knots and weights
calc_grid(grid_type, order_sequence, i_p, i_level) ==
    LET known == grid_type[i_p] \in GridTypes
        carried == CarriedRules(grid_type, order_sequence, i_p)
        l == IF known
             THEN get_quadrature_1d(grid_type[i_p], order_sequence[i_p][i_level + 1])
             ELSE carried.l
        l_1 == IF known
               THEN get_quadrature_1d(grid_type[i_p], order_sequence[i_p][i_level])
               ELSE carried.l_1
    IN IF i_level = 0
       THEN l
       ELSE [knots |-> l.knots \o l_1.knots,
             weights |-> l.weights \o [j \in 1..Len(l_1.weights) |-> -l_1.weights[j]]]

\* SparseGrid.calc_tensor_products: the rows of all sub-grids, stacked
RECURSIVE calc_tensor_products(_, _, _, _, _)
calc_tensor_products(dim, grid_type, order_sequence, l_level, i_l_level) ==
    IF i_l_level > Len(l_level) THEN [dll_k |-> <<>>, dll_w |-> <<>>]
    ELSE LET l == l_level[i_l_level]
             knots == [i_p \in 1..dim |-> calc_grid(grid_type, order_sequence, i_p, l[i_p]).knots]
             weights == [i_p \in 1..dim |-> calc_grid(grid_type, order_sequence, i_p, l[i_p]).weights]
             w == get_cartesian_product(weights)
             rest == calc_tensor_products(dim, grid_type, order_sequence, l_level, i_l_level + 1)
         IN [dll_k |-> get_cartesian_product(knots) \o rest.dll_k,
             dll_w |-> [j \in 1..Len(w) |-> Prod(w[j], dim)] \o rest.dll_w]

\* np.sum(np.abs(a - b))
L1Dist(a, b) ==
    LET RECURSIVE S(_)
        S(k) == IF k = 0 THEN 0 ELSE Abs(a[k] - b[k]) + S(k - 1)
    IN S(Len(a))

\* "... < epsilon_k", epsilon_k = 1E-6, for a distance d in units of 1/KnotUnit
WithinEpsilonK(d) == d <= (KnotUnit - 1) \div Pow(10, 6)

\* the merge loop of calc_coords_weights (Grid.py 760-775): the first row not
\* yet numbered becomes a point, every row within epsilon_k of it gets its
\* number, and the weights of the rows of one number are summed
RECURSIVE MergePoints(_, _, _)
MergePoints(dll_k, dll_w, not_found) ==
    IF not_found = {} THEN <<>>
    ELSE LET first == CHOOSE i \in not_found : \A j \in not_found : i <= j
             same == {i \in not_found : WithinEpsilonK(L1Dist(dll_k[i], dll_k[first]))}
         IN << [k |-> dll_k[first], w |-> SumOver([i \in same |-> dll_w[i]], same)] >>
            \o MergePoints(dll_k, dll_w, not_found \ same)

\* a filter that keeps every merged point
keep_every_point(w, dim) == TRUE

\* keep_point = np.abs(weights) > epsilon_w, epsilon_w = 1E-8 / dim
\* (Grid.py 779-780), for an integer weight
keep_point(w, dim) == Abs(w) * dim > 1 \div Pow(10, 8)

\* SparseGrid.__init__ (Grid.py 548-557) with calc_coords_weights
SparseGrid(dim, grid_type, level, level_max, interaction_order, order_sequence_type) ==
    LET order_sequence == calc_multi_indices(level, order_sequence_type)
        l_level == calc_l_level(dim, level, level_max, interaction_order)
        t == calc_tensor_products(dim, grid_type, order_sequence, l_level, 1)
        merged == MergePoints(t.dll_k, t.dll_w, 1..Len(t.dll_w))
        Keep(pt) == keep_point(pt.w, dim)
        kept == SelectSeq(merged, Keep)
        coords_norm == Rescale([j \in 1..Len(kept) |-> kept[j].k], dim, grid_type)
    IN [outcome |-> "ok",
        order_sequence |-> order_sequence,
        l_level |-> l_level,
        coords_norm |-> coords_norm,
        weights |-> [j \in 1..Len(kept) |-> kept[j].w \div Pow(2, dim)],
        coords |-> Denormalize(coords_norm, dim),
        n_grid |-> Len(coords_norm),
        coords_id |-> FreshIds(0, Len(coords_norm))]

\* SparseGrid(parameters_random, options), parameters_random the first dim
\* entries of Params
SparseGridConstruct ==
    /\ sg.phase = "idle"
    /\ \E dim \in 1..Dim :
         \E grid_type \in [1..dim -> GridTypes \cup {UnknownGridType}],
            level \in [1..dim -> 0..MaxLevel],
            level_max \in 0..(Dim * MaxLevel), interaction_order \in 1..dim,
            order_sequence_type \in {"exp", "lin"} :
           sg' = [phase |-> "sparse", dim |-> dim, grid_type |-> grid_type,
                  level |-> level, level_max |-> level_max,
                  interaction_order |-> interaction_order,
                  order_sequence_type |-> order_sequence_type,
                  sparse |-> SparseGrid(dim, grid_type, level, level_max,
                                        interaction_order, order_sequence_type)]
    /\ UNCHANGED <<grid, uuid, call, fim, ese, rnd, ct, lhs, sel, mrg, lvl>>

\* TensorGrid(parameters_random, options) with the same parameters and rule
\* families, n_dim taken from the orders of the sparse grid's order_sequence
TensorGridConstruct ==
    /\ sg.phase = "sparse"
    /\ \E n_dim \in [1..sg.dim -> 1..(Pow(2, MaxLevel) + 1)] :
         /\ \A i_p \in 1..sg.dim :
              \E l1 \in 1..Len(sg.sparse.order_sequence[i_p]) :
                 n_dim[i_p] = sg.sparse.order_sequence[i_p][l1]
         /\ sg' = [phase |-> "both", dim |-> sg.dim, grid_type |-> sg.grid_type,
                   level |-> sg.level, level_max |-> sg.level_max,
                   interaction_order |-> sg.interaction_order,
                   order_sequence_type |-> sg.order_sequence_type,
                   sparse |-> sg.sparse,
                   tensor |-> TensorGrid(sg.dim, sg.grid_type, n_dim)]
    /\ UNCHANGED <<grid, uuid, call, fim, ese, rnd, ct, lhs, sel, mrg, lvl>>

InitSG ==
    /\ GridInit
    /\ fim = FimIdle
    /\ ese = [phase |-> "idle"]
    /\ sg = [phase |-> "idle"]
    /\ rnd = [phase |-> "idle"]
    /\ ct = [phase |-> "idle"]
    /\ lhs = [phase |-> "idle"]
    /\ sel = [phase |-> "idle"]
    /\ mrg = [phase |-> "idle"]
    /\ lvl = [phase |-> "idle"]

NextSG ==
    \/ SparseGridConstruct
    \/ TensorGridConstruct

SpecSG == InitSG /\ [][NextSG]_vars

\* the points of a grid with their weights
WeightedPoints(g) == {<<g.coords_norm[j], g.weights[j]>> : j \in 1..g.n_grid}

\* same point set, same weight per point, no point twice
SameGrid(a, b) ==
    /\ WeightedPoints(a) = WeightedPoints(b)
    /\ a.n_grid = b.n_grid
    /\ Cardinality({a.coords_norm[j] : j \in 1..a.n_grid}) = a.n_grid
    /\ Cardinality({b.coords_norm[j] : j \in 1..b.n_grid}) = b.n_grid

\* the tensor grid is the one of the top-level orders and the interaction
\* order is the dimension
TopLevelPair ==
    /\ sg.phase = "both"
    /\ Recognized(sg.grid_type)
    /\ sg.interaction_order = sg.dim
    /\ \A i_p \in 1..sg.dim :
         sg.tensor.n_dim[i_p] = sg.sparse.order_sequence[i_p][sg.level[i_p] + 1]

MaxOf(level) == CHOOSE m \in {level[i_p] : i_p \in 1..Len(level)} :
                    \A i_p \in 1..Len(level) : level[i_p] <= m

SumWeights(g) == Sum(g.weights, Len(g.weights))

\* the weights sum to 1 and there is one weight per grid point
UnitWeights(g, dim) ==
    /\ SumWeights(g) = Pow(WeightUnit, dim)
    /\ Len(g.weights) = g.n_grid
    /\ Len(g.coords_norm) = g.n_grid
    /\ Len(g.coords) = g.n_grid

MaxSub == 3

\* the unit of the entries of dll_k
MergeUnit == Pow(10, 7)

\* epsilon_k = 1E-6
epsilon_k == MergeUnit \div Pow(10, 6)

\* the entries a sub-grid row can have: 0 and 5E-7
MergeVals == {0, epsilon_k \div 2}

\* the weights a sub-grid row can have
MergeWeights == {-1, 1, 2}

\* not_found = point_number_list < 0, as the list of the indices
NotFound(point_number_list) ==
    SelectSeq([i \in 1..Len(point_number_list) |-> i],
              LAMBDA i : point_number_list[i] < 0)

\* np.sum(dll_w[point_number_list == i_point]) with the sum replaced by the
\* weight of the first row of the point
FirstWeightOf(dll_w, point_number_list, i_point) ==
    dll_w[CHOOSE i \in 1..Len(dll_w) :
             /\ point_number_list[i] = i_point
             /\ \A j \in 1..(i - 1) : point_number_list[j] # i_point]

\* np.sum(dll_w[point_number_list == i_point])
SumWeightOf(dll_w, point_number_list, i_point) ==
    LET members == {i \in 1..Len(dll_w) : point_number_list[i] = i_point}
    IN SumOver([i \in members |-> dll_w[i]], members)

\* np.amax(point_number_list)
AMax(list) == CHOOSE m \in {list[i] : i \in 1..Len(list)} :
                  \A i \in 1..Len(list) : list[i] <= m

\* calc_tensor_products has returned dll_k and dll_w
MergeBegin ==
    /\ mrg.phase = "idle"
    /\ \E n \in 1..MaxSub :
         \E dll_k \in SeqsOfLen(SeqsOfLen(MergeVals, Dim), n),
            dll_w \in SeqsOfLen(MergeWeights, n) :
           mrg' = [phase |-> "loop", dll_k |-> dll_k, dll_w |-> dll_w,
                   point_number_list |-> [i \in 1..n |-> -1],
                   point_no |-> 0, coords_norm |-> <<>>, first |-> <<>>,
                   weights |-> <<>>]
    /\ UNCHANGED <<grid, uuid, call, fim, ese, sg, rnd, ct, lhs, sel, lvl>>

\* one pass of "while any(point_number_list < 0)"
MergePass ==
    /\ mrg.phase = "loop"
    /\ \E i \in 1..Len(mrg.point_number_list) : mrg.point_number_list[i] < 0
    /\ LET not_found == NotFound(mrg.point_number_list)
           dll_k_nf == [j \in 1..Len(not_found) |-> mrg.dll_k[not_found[j]]]
           point_temp == [j \in 1..Len(not_found) |->
                            IF L1Dist(dll_k_nf[j], dll_k_nf[1]) < epsilon_k
                            THEN mrg.point_no ELSE -1]
       IN mrg' = [mrg EXCEPT
                    !.point_number_list =
                        [i \in 1..Len(@) |->
                            IF \E j \in 1..Len(not_found) : not_found[j] = i
                            THEN point_temp[CHOOSE j \in 1..Len(not_found) : not_found[j] = i]
                            ELSE @[i]],
                    !.point_no = @ + 1,
                    !.coords_norm = Append(@, dll_k_nf[1]),
                    !.first = Append(@, not_found[1])]
    /\ UNCHANGED <<grid, uuid, call, fim, ese, sg, rnd, ct, lhs, sel, lvl>>

\* the loop is left and the weights of the points are summed (Grid.py 767-775)
MergeSum ==
    /\ mrg.phase = "loop"
    /\ \A i \in 1..Len(mrg.point_number_list) : mrg.point_number_list[i] >= 0
    /\ mrg' = [mrg EXCEPT
                 !.phase = "done",
                 !.weights = [i_point \in 1..(AMax(mrg.point_number_list) + 1) |->
                                 SumWeightOf(mrg.dll_w, mrg.point_number_list, i_point - 1)]]
    /\ UNCHANGED <<grid, uuid, call, fim, ese, sg, rnd, ct, lhs, sel, lvl>>

InitMerge ==
    /\ GridInit
    /\ OthersIdle

NextMerge ==
    \/ MergeBegin
    \/ MergePass
    \/ MergeSum

SpecMerge == InitMerge /\ [][NextMerge]_vars

\* the rows that carry the number g
Group(g) == {i \in 1..Len(mrg.point_number_list) : mrg.point_number_list[i] = g}

\* C21: the merge pass ends after at most N passes for N sub-grid rows and
\* leaves a partition: every row has exactly one group number, the numbers
\* are 0..G-1 and no group is empty, the representative of a group is the
\* first row that had no number when the group was made, every member of a
\* group lies within an L1 distance of 1e-6 of the representative, the weight
\* of a group is the sum of the weights of its members, and the weights of
\* the groups add up to the weights of all rows.
C21_MergeIsPartition ==
    /\ mrg.phase \in {"loop", "done"} => mrg.point_no <= Len(mrg.dll_k)
    /\ mrg.phase = "done" =>
         LET n == Len(mrg.dll_k)
             G == mrg.point_no
         IN /\ \A i \in 1..n : mrg.point_number_list[i] \in 0..(G - 1)
            /\ Len(mrg.coords_norm) = G
            /\ Len(mrg.weights) = G
            /\ \A g \in 0..(G - 1) :
                 /\ Group(g) # {}
                 /\ LET rep == CHOOSE i \in 1..n :
                                 /\ mrg.point_number_list[i] >= g
                                 /\ \A j \in 1..(i - 1) : mrg.point_number_list[j] < g
                    IN /\ rep \in Group(g)
                       /\ mrg.coords_norm[g + 1] = mrg.dll_k[rep]
                       /\ \A i \in Group(g) :
                            L1Dist(mrg.dll_k[i], mrg.dll_k[rep]) < epsilon_k
                 /\ mrg.weights[g + 1] = SumOver([i \in Group(g) |-> mrg.dll_w[i]], Group(g))
            /\ Sum(mrg.weights, G) = Sum(mrg.dll_w, n)

\* three rows were merged into two groups; the row left out of the first
\* group lies within 1e-6 of a member of it, though not of its representative
C21_Witness ==
    /\ mrg.phase = "done"
    /\ Len(mrg.dll_k) = 3
    /\ mrg.point_number_list = <<0, 0, 1>>
    /\ mrg.dll_k[1] # mrg.dll_k[2]
    /\ L1Dist(mrg.dll_k[3], mrg.dll_k[2]) < epsilon_k
    /\ L1Dist(mrg.dll_k[3], mrg.dll_k[1]) >= epsilon_k
    /\ mrg.weights[1] = mrg.dll_w[1] + mrg.dll_w[2]
    /\ mrg.dll_w[1] # mrg.weights[1]


(***************************************************************************)
(* The index bookkeeping of SparseGrid for every rule family:              *)
(* calc_multi_indices, the order lookups of calc_grid and calc_l_level     *)
(* (Grid.py 559-705), in the order SparseGrid.__init__ runs them.  Lists   *)
(* are Python lists: an index below 0 counts from the end, an index out of *)
(* range raises IndexError.                                                *)
(***************************************************************************)
\* the rule families calc_multi_indices and calc_grid name
Families == {"jacobi", "hermite", "clenshaw_curtis", "fejer2", "patterson"}

\* list[i] of Python, i counted from 0
PyIndex(list, i) ==
    IF i >= 0 /\ i < Len(list) THEN [ok |-> TRUE, value |-> list[i + 1]]
    ELSE IF i < 0 /\ -i <= Len(list) THEN [ok |-> TRUE, value |-> list[Len(list) + i + 1]]
    ELSE [ok |-> FALSE, value |-> 0]

\* the list appended to level_sequence for one dimension (Grid.py 565-569)
LevelSequenceOf(family, level) ==
    IF family = "fejer2" THEN [l1 \in 1..level |-> l1]
    ELSE [l1 \in 1..(level + 1) |-> l1 - 1]

\* the list appended to order_sequence for one dimension (Grid.py 571-593);
\* appended is FALSE when the branch appends nothing, ok is FALSE when
\* "self.order_sequence[i_p][0] = 1" hits an empty list
OrderSequenceOf(family, level, order_sequence_type) ==
    IF order_sequence_type = "exp"
    THEN IF family = "fejer2"
         \* np.power(2, np.arange(1, level)) - 1, then [0] = 1
         THEN [appended |-> TRUE, ok |-> level >= 2,
               list |-> [l1 \in 1..Max2(level - 1, 0) |->
                            IF l1 = 1 THEN 1 ELSE Pow(2, l1) - 1]]
         ELSE IF family = "patterson"
         \* np.power(2, np.arange(0, level)) + 1
         THEN [appended |-> TRUE, ok |-> TRUE,
               list |-> [l1 \in 1..level |-> Pow(2, l1 - 1) + 1]]
         \* 2 ** np.linspace(0, level, level + 1) + 1, then [0] = 1
         ELSE [appended |-> TRUE, ok |-> TRUE,
               list |-> [l1 \in 1..(level + 1) |->
                            IF l1 = 1 THEN 1 ELSE Pow(2, l1 - 1) + 1]]
    ELSE IF family = "patterson"
         \* "Not possible in case of Gauss-Patterson grid." is printed
         THEN [appended |-> FALSE, ok |-> TRUE, list |-> <<>>]
         \* np.linspace(1, level + 1, level + 1)
         ELSE [appended |-> TRUE, ok |-> TRUE,
               list |-> [l1 \in 1..(level + 1) |-> l1]]

\* SparseGrid.calc_multi_indices: the loop over the dimensions from i_p on
RECURSIVE calc_multi_indices_from(_, _, _, _, _, _)
calc_multi_indices_from(grid_type, level, order_sequence_type, i_p, level_sequence, order_sequence) ==
    IF i_p > Len(grid_type)
    THEN [outcome |-> "ok", level_sequence |-> level_sequence,
          order_sequence |-> order_sequence]
    ELSE LET o == OrderSequenceOf(grid_type[i_p], level[i_p], order_sequence_type)
             ls == Append(level_sequence, LevelSequenceOf(grid_type[i_p], level[i_p]))
             os == IF o.appended THEN Append(order_sequence, o.list) ELSE order_sequence
         IN IF ~o.ok
            THEN [outcome |-> "IndexError", level_sequence |-> ls, order_sequence |-> os]
            ELSE calc_multi_indices_from(grid_type, level, order_sequence_type, i_p + 1,
                                         ls, os)


\* largest entry of options["level"] in the index bookkeeping
MaxLvl == 2

\* the index of the order of level i_level in order_sequence[i_p]
\* (Grid.py 658-690)
OrderIndex(family, i_level) == IF family = "fejer2" THEN i_level - 1 ELSE i_level

\* an index that names the level itself instead of its predecessor
SameOrderIndex(family, i_level) == OrderIndex(family, i_level)

\* the index of the order of the level before i_level
PrevOrderIndex(family, i_level) == IF family = "fejer2" THEN i_level - 2 ELSE i_level - 1

\* is i_level stored as the plain rule (Grid.py 692-693)
StoredPlain(family, i_level) ==
    \/ (i_level = 0 /\ family # "fejer2")
    \/ (i_level = 1 /\ family = "fejer2")

\* the order lookups of SparseGrid.calc_grid for every dimension and every
\* level of its level_sequence: per dimension the list of the entries
\* [i_level, order_l, order_l_1, plain]
calc_grid_orders(grid_type, level_sequence, order_sequence) ==
    LET seq(i_p) == PyIndex(order_sequence, i_p - 1)
        entry(i_p, i_level) ==
            LET os == IF seq(i_p).ok THEN seq(i_p).value ELSE <<>>
                l == PyIndex(os, OrderIndex(grid_type[i_p], i_level))
                l_1 == PyIndex(os, PrevOrderIndex(grid_type[i_p], i_level))
            IN [ok |-> seq(i_p).ok /\ l.ok /\ l_1.ok,
                i_level |-> i_level, order_l |-> l.value, order_l_1 |-> l_1.value,
                plain |-> StoredPlain(grid_type[i_p], i_level)]
        table == [i_p \in 1..Len(grid_type) |->
                    [k \in 1..Len(level_sequence[i_p]) |->
                        entry(i_p, level_sequence[i_p][k])]]
    IN [outcome |-> IF \A i_p \in 1..Len(grid_type) :
                          \A k \in 1..Len(table[i_p]) : table[i_p][k].ok
                    THEN "ok" ELSE "IndexError",
        table |-> table]

\* Quadrature.get_quadrature_fejer2_1d(n): an open rule, no knot at -1 or 1
get_quadrature_fejer2_1d(n) ==
    [knots |-> [j \in 1..n |-> ((2 * j - n - 1) * KnotUnit) \div (n + 1)],
     weights |-> QuadratureWeights(n)]

\* the dispatch of calc_grid on the five families (Grid.py 658-690)
get_quadrature_family_1d(family, n) ==
    IF family \in {"jacobi", "hermite"} THEN get_quadrature_jacobi_1d(n)
    ELSE IF family = "fejer2" THEN get_quadrature_fejer2_1d(n)
    ELSE get_quadrature_clenshaw_curtis_1d(n)

\* dl_k[i_level][i_p] and dl_w[i_level][i_p] of an entry of the table
\* (Grid.py 692-701)
DifferenceRule(family, e) ==
    LET l == get_quadrature_family_1d(family, e.order_l)
        l_1 == get_quadrature_family_1d(family, e.order_l_1)
    IN IF e.plain THEN l
       ELSE [knots |-> l.knots \o l_1.knots,
             weights |-> l.weights \o [j \in 1..Len(l_1.weights) |-> -l_1.weights[j]]]

\* get_multi_indices(self.dim, self.level_max - self.dim) (Grid.py 610): the
\* call passes two positional arguments; misc.py is outside src/.  Where the
\* call is accepted it gives the multi-indices of dim entries whose sum is at
\* most order_max
get_multi_indices_positional(dim, order_max) ==
    get_multi_indices([i_p \in 1..dim |-> order_max], order_max)

\* SparseGrid.calc_l_level for every family; accepted says whether the
\* positional call of get_multi_indices is accepted
calc_l_level_families(dim, grid_type, level, level_max, interaction_order, accepted) ==
    LET fejer2 == \E i_p \in 1..dim : grid_type[i_p] = "fejer2"
        raw == IF fejer2
               THEN IF dim = 1
                    THEN [l1 \in 1..level_max |-> <<l1>>]
                    ELSE LET m == get_multi_indices_positional(dim, level_max - dim)
                         IN [j \in 1..Len(m) |-> [i_p \in 1..dim |-> m[j][i_p] + 1]]
               ELSE IF dim = 1
                    THEN [l1 \in 1..(level_max + 1) |-> <<l1 - 1>>]
                    ELSE get_multi_indices([i_p \in 1..dim |-> level_max], level_max)
        BelowLevel(l) == \A i_p \in 1..dim : l[i_p] <= level[i_p]
        BelowInteraction(l) ==
            IF fejer2
            THEN Cardinality({i_p \in 1..dim : l[i_p] > 1}) <= interaction_order
            ELSE Cardinality({i_p \in 1..dim : l[i_p] > 0}) <= interaction_order
        capped == SelectSeq(raw, BelowLevel)
    IN IF fejer2 /\ dim > 1 /\ ~accepted
       THEN [outcome |-> "TypeError", l_level |-> <<>>]
       ELSE [outcome |-> "ok",
             l_level |-> IF interaction_order < dim
                         THEN SelectSeq(capped, BelowInteraction) ELSE capped]

\* SparseGrid(parameters_random, options) up to the end of
\* calc_multi_indices
LvlCalcMultiIndices ==
    /\ lvl.phase = "idle"
    /\ \E dim \in 1..Dim :
         \E grid_type \in [1..dim -> Families],
            level \in [1..dim -> 0..MaxLvl],
            level_max \in 0..(Dim * MaxLvl), interaction_order \in 1..dim,
            order_sequence_type \in {"exp", "lin"} :
           LET r == calc_multi_indices_from(grid_type, level, order_sequence_type,
                                            1, <<>>, <<>>)
           IN lvl' = [phase |-> "indices", outcome |-> r.outcome, dim |-> dim,
                      grid_type |-> grid_type, level |-> level,
                      level_max |-> level_max,
                      interaction_order |-> interaction_order,
                      order_sequence_type |-> order_sequence_type,
                      level_sequence |-> r.level_sequence,
                      order_sequence |-> r.order_sequence,
                      table |-> <<>>, l_level |-> <<>>]
    /\ UNCHANGED <<grid, uuid, call, fim, ese, sg, rnd, ct, lhs, sel, mrg>>

\* calc_coords_weights -> calc_tensor_products -> calc_grid
LvlCalcGrid ==
    /\ lvl.phase = "indices"
    /\ lvl.outcome = "ok"
    /\ LET r == calc_grid_orders(lvl.grid_type, lvl.level_sequence, lvl.order_sequence)
       IN lvl' = [lvl EXCEPT !.phase = "table", !.outcome = r.outcome,
                             !.table = IF r.outcome = "ok" THEN r.table ELSE <<>>]
    /\ UNCHANGED <<grid, uuid, call, fim, ese, sg, rnd, ct, lhs, sel, mrg>>

\* calc_tensor_products -> calc_l_level
LvlCalcLLevel ==
    /\ lvl.phase = "table"
    /\ lvl.outcome = "ok"
    /\ \E accepted \in BOOLEAN :
         LET r == calc_l_level_families(lvl.dim, lvl.grid_type, lvl.level, lvl.level_max,
                                        lvl.interaction_order, accepted)
         IN lvl' = [lvl EXCEPT !.phase = "levels", !.outcome = r.outcome,
                               !.l_level = r.l_level]
    /\ UNCHANGED <<grid, uuid, call, fim, ese, sg, rnd, ct, lhs, sel, mrg>>

InitLvl ==
    /\ GridInit
    /\ OthersIdle

NextLvl ==
    \/ LvlCalcMultiIndices
    \/ LvlCalcGrid
    \/ LvlCalcLLevel

SpecLvl == InitLvl /\ [][NextLvl]_vars

\* a dimension interacts in a multi-index: a fejer2 dimension when its level
\* is above 1, any other dimension when its level is above 0
Interacts(family, l) == IF family = "fejer2" THEN l > 1 ELSE l > 0

\* C22: every multi-index retained by calc_l_level has each component i at
\* most level[i], a total within level_max, and at most interaction_order
\* interacting dimensions, where a fejer2 dimension interacts when its level
\* is > 1 and any other dimension when its level is > 0, also in grids that
\* mix fejer2 with other families.
C22_RetainedIndices ==
    (lvl.phase = "levels" /\ lvl.outcome = "ok") =>
        \A j \in 1..Len(lvl.l_level) :
           LET l == lvl.l_level[j]
           IN /\ \A i_p \in 1..lvl.dim : l[i_p] <= lvl.level[i_p]
              /\ Sum(l, lvl.dim) <= lvl.level_max
              /\ Cardinality({i_p \in 1..lvl.dim :
                                 Interacts(lvl.grid_type[i_p], l[i_p])})
                    <= lvl.interaction_order

\* C23: after calc_multi_indices, order_sequence[i] exists for every
\* dimension i and holds one order for each level of level_sequence[i], for
\* every rule family and both order_sequence_type values, so that calc_grid
\* finds the order of every level and of its predecessor without an index
\* error.
C23_OrderPerLevel ==
    /\ lvl.phase # "idle" =>
          /\ lvl.phase = "indices" => lvl.outcome = "ok"
          /\ Len(lvl.order_sequence) = lvl.dim
          /\ \A i_p \in 1..lvl.dim :
                Len(lvl.order_sequence[i_p]) = Len(lvl.level_sequence[i_p])
    /\ lvl.phase = "table" => lvl.outcome = "ok"


\* the one-dimensional rule of the k-th level of level_sequence[i_p]
RuleAt(i_p, k) == get_quadrature_family_1d(lvl.grid_type[i_p], lvl.order_sequence[i_p][k])

\* what the table holds for the k-th level of dimension i_p
Stored(i_p, k) == DifferenceRule(lvl.grid_type[i_p], lvl.table[i_p][k])

\* the sum of the weights a rule gives to a knot
WeightAt(rule, knot) ==
    LET at == {j \in 1..Len(rule.knots) : rule.knots[j] = knot}
    IN SumOver([j \in at |-> rule.weights[j]], at)

\* the signed weights of a knot over the first L levels of dimension i_p
RECURSIVE SignedSum(_, _, _)
SignedSum(i_p, L, knot) ==
    IF L = 0 THEN 0
    ELSE WeightAt(Stored(i_p, L), knot) + SignedSum(i_p, L - 1, knot)

\* calc_grid has returned its table
TableBuilt ==
    /\ lvl.phase \in {"table", "levels"}
    /\ lvl.table # <<>>

\* C24: the difference-grid table of calc_grid telescopes in every
\* dimension: the first level of the sequence stores the rule as it is,
\* every later level stores the knots of the level followed by the knots of
\* the level before with the weights (w_level, -w_previous), and for every L
\* the signed weights of the levels up to L add up, knot by knot, to the
\* weights of the rule of level L.
C24_DifferencesTelescope ==
    TableBuilt =>
        \A i_p \in 1..lvl.dim : \A L \in 1..Len(lvl.table[i_p]) :
           /\ L = 1 => Stored(i_p, L) = RuleAt(i_p, L)
           /\ L > 1 =>
                /\ Stored(i_p, L).knots = RuleAt(i_p, L).knots \o RuleAt(i_p, L - 1).knots
                /\ Stored(i_p, L).weights =
                      RuleAt(i_p, L).weights
                      \o [j \in 1..Len(RuleAt(i_p, L - 1).weights) |->
                             -RuleAt(i_p, L - 1).weights[j]]
           /\ \A k \in 1..L : \A j \in 1..Len(Stored(i_p, k).knots) :
                LET knot == Stored(i_p, k).knots[j]
                IN SignedSum(i_p, L, knot) = WeightAt(RuleAt(i_p, L), knot)

\* a table with a fejer2 dimension and another dimension of three levels
\* each; a knot of the lowest rule is also a knot of the top rule, and one
\* is not
C24_Witness ==
    /\ TableBuilt
    /\ lvl.dim = 2
    /\ lvl.grid_type[1] = "fejer2"
    /\ lvl.grid_type[2] # "fejer2"
    /\ Len(lvl.table[1]) >= 2
    /\ Len(lvl.table[2]) = 3
    /\ \E j \in 1..Len(RuleAt(2, 2).knots) :
          /\ WeightAt(RuleAt(2, 3), RuleAt(2, 2).knots[j]) = 0
          /\ SignedSum(2, 3, RuleAt(2, 2).knots[j]) = 0
    /\ \E j \in 1..Len(RuleAt(2, 1).knots) :
          WeightAt(RuleAt(2, 3), RuleAt(2, 1).knots[j]) # 0

(***************************************************************************)
(* Random.__init__ (Grid.py 1110-1211) on numpy's global generator.        *)
(* The generator is a stream of elements that is a function of the seed:   *)
(* tape holds the elements of the stream revealed so far, pos the number   *)
(* of elements consumed since the generator was seeded.  A call of size m  *)
(* consumes m elements; np.random.seed(s) sets pos back to 0.  An element  *)
(* is a number of 0..2 that each distribution maps to a value.  The        *)
(* truncation bounds x_perc_norm belong to the RandomParameter.  A         *)
(* behaviour builds one design and then a second one with the same         *)
(* parameters and the same seed option.                                    *)
(***************************************************************************)
\* largest n_grid of a Random design
MaxN == 2

\* largest number of elements taken from the generator after seeding
MaxDraws == 5

RandomParameters ==
    [beta |-> [pdf_type |-> "beta", pdf_shape |-> <<1, 1>>, pdf_limits |-> <<0, 4>>],
     norm |-> [pdf_type |-> "norm", pdf_shape |-> <<3, 2>>, pdf_limits |-> <<0, 0>>,
               x_perc_norm |-> <<-2, 2>>],
     gamma |-> [pdf_type |-> "gamma", pdf_shape |-> <<2, 1, 0>>, pdf_limits |-> <<0, 0>>,
                x_perc_norm |-> 4]]

\* options is None or has no "seed"
NoSeed == -1

\* options["seed"], or NoSeed
Seeds == {NoSeed, 0, 1}

Elements == 0..2

\* np.random.beta(...) * 2.0 - 1, np.random.normal(0, 1), np.random.gamma(shape, 1)
\* for one element of the stream
Variate(par, e) ==
    IF par.pdf_type = "beta" THEN e - 1
    ELSE IF par.pdf_type = "norm" THEN 3 * (e - 1)
    ELSE 1 + 2 * e

\* a resample test that looks at the upper bound only
OutlierAbove(par, x) ==
    IF par.pdf_type \in {"norm", "gamma"}
    THEN x > (IF par.pdf_type = "norm" THEN par.x_perc_norm[2] ELSE par.x_perc_norm)
    ELSE FALSE

\* the resample test of one entry (Grid.py 1153-1154, 1165, 1184-1186, 1201)
Outlier(par, x) ==
    IF par.pdf_type = "norm"
    THEN x < par.x_perc_norm[1] \/ x > par.x_perc_norm[2]
    ELSE IF par.pdf_type = "gamma" THEN x > par.x_perc_norm
    ELSE FALSE

\* the end of the not-grid_present branch (Grid.py 1207-1211)
RandomFinish(r) ==
    [r EXCEPT !.phase = "done",
              !.coords = [j \in 1..Len(r.coords_norm) |-> [i_p \in 1..r.dim |->
                             DenormEntryOf(r.parameters_random[i_p],
                                           r.coords_norm[j][i_p], 1)]],
              !.n_grid = Len(r.coords_norm),
              !.coords_id = FreshIds(r.uuid, Len(r.coords_norm)),
              !.uuid = r.uuid + Len(r.coords_norm)]

\* `if self.seed:`
SeedTruthy(seed) == seed \notin {NoSeed, 0}

\* a generator that is never seeded again: the stream goes on
ContinueStream(is_first, seed, pos) == IF is_first THEN 0 ELSE pos

\* np.random.seed(self.seed) when options has a "seed" (Grid.py 873-878): the
\* position in the stream the next draw is taken from
SeedStream(is_first, seed, pos) == IF is_first \/ seed # NoSeed THEN 0 ELSE pos

\* Random(parameters_random, n_grid, options) up to the first draw;
\* RandomGrid.__init__ seeds the generator when options has a "seed"
RandomConstruct ==
    /\ rnd.phase \in {"idle", "done"}
    /\ \E n \in 1..MaxN, dim \in 1..2 :
       \E types \in [1..dim -> {"beta", "norm", "gamma"}], seed \in Seeds :
         /\ rnd.phase = "done" =>
              /\ rnd.builds = 1
              /\ types = [i_p \in 1..rnd.dim |-> rnd.parameters_random[i_p].pdf_type]
              /\ seed = rnd.seed
         /\ rnd' = [phase |-> "draw",
                    builds |-> IF rnd.phase = "idle" THEN 1 ELSE rnd.builds + 1,
                    dim |-> dim,
                    parameters_random |-> [i_p \in 1..dim |-> RandomParameters[types[i_p]]],
                    seed |-> seed,
                    tape |-> IF rnd.phase = "idle" THEN <<>> ELSE rnd.tape,
                    pos |-> SeedStream(rnd.phase = "idle", seed,
                                       IF rnd.phase = "idle" THEN 0 ELSE rnd.pos),
                    first |-> IF rnd.phase = "idle" THEN <<>> ELSE rnd.coords_norm,
                    n_grid |-> n,
                    coords_norm |-> [j \in 1..n |-> [i_p \in 1..dim |-> 0]],
                    coords |-> <<>>,
                    coords_id |-> <<>>,
                    uuid |-> IF rnd.phase = "idle" THEN 0 ELSE rnd.uuid,
                    i_grid |-> 1,
                    i_p |-> 1,
                    outlier_mask |-> [j \in 1..n |-> TRUE],
                    drawn |-> {}]
    /\ UNCHANGED <<grid, uuid, call, fim, ese, sg, ct, lhs, sel, mrg, lvl>>

\* one pass of the element-wise loop (Grid.py 1136-1165): one draw for the
\* entry (i_grid, i_p), repeated while the entry is out of bounds; the
\* elements of the stream not yet revealed (fresh) are the generator's choice
SeededDraw ==
    /\ rnd.phase = "draw"
    /\ SeedTruthy(rnd.seed)
    /\ rnd.pos + 1 <= MaxDraws
    /\ \E fresh \in SeqsOfLen(Elements, Max2(rnd.pos + 1 - Len(rnd.tape), 0)) :
         /\ LET tape == rnd.tape \o fresh
                par == rnd.parameters_random[rnd.i_p]
                x == Variate(par, tape[rnd.pos + 1])
                resample == Outlier(par, x)
                last == rnd.i_grid = rnd.n_grid /\ rnd.i_p = rnd.dim
                r == [rnd EXCEPT !.tape = tape,
                                 !.pos = rnd.pos + 1,
                                 !.coords_norm[rnd.i_grid][rnd.i_p] = x,
                                 !.drawn = IF resample THEN rnd.drawn
                                           ELSE rnd.drawn \cup {<<rnd.i_grid, rnd.i_p>>},
                                 !.i_p = IF resample THEN rnd.i_p
                                         ELSE IF rnd.i_p = rnd.dim THEN 1 ELSE rnd.i_p + 1,
                                 !.i_grid = IF resample \/ rnd.i_p < rnd.dim THEN rnd.i_grid
                                            ELSE rnd.i_grid + 1]
            IN rnd' = IF last /\ ~resample THEN RandomFinish(r) ELSE r
    /\ UNCHANGED <<grid, uuid, call, fim, ese, sg, ct, lhs, sel, mrg, lvl>>

\* one pass of the column-wise loop (Grid.py 1167-1205): the whole column of
\* a beta parameter, or the masked entries of a normal or gamma column
ColumnDraw ==
    /\ rnd.phase = "draw"
    /\ ~SeedTruthy(rnd.seed)
    /\ LET par == rnd.parameters_random[rnd.i_p]
           rows == IF par.pdf_type = "beta" THEN 1..rnd.n_grid
                   ELSE {j \in 1..rnd.n_grid : rnd.outlier_mask[j]}
           m == Cardinality(rows)
           \* the position of row j among the masked rows
           rank(j) == Cardinality({i \in rows : i <= j})
       IN /\ rnd.pos + m <= MaxDraws
          /\ \E fresh \in SeqsOfLen(Elements, Max2(rnd.pos + m - Len(rnd.tape), 0)) :
               /\ LET tape == rnd.tape \o fresh
                      column == [j \in 1..rnd.n_grid |->
                                   IF j \in rows
                                   THEN Variate(par, tape[rnd.pos + rank(j)])
                                   ELSE rnd.coords_norm[j][rnd.i_p]]
                      outlier_mask == [j \in 1..rnd.n_grid |-> Outlier(par, column[j])]
                      resample == \E j \in 1..rnd.n_grid : outlier_mask[j]
                      r == [rnd EXCEPT !.tape = tape,
                                       !.pos = rnd.pos + m,
                                       !.coords_norm = [j \in 1..rnd.n_grid |->
                                            [rnd.coords_norm[j] EXCEPT ![rnd.i_p] = column[j]]],
                                       !.drawn = rnd.drawn \cup
                                            {<<j, rnd.i_p>> : j \in {i \in 1..rnd.n_grid : ~outlier_mask[i]}},
                                       !.outlier_mask = IF resample THEN outlier_mask
                                                        ELSE [j \in 1..rnd.n_grid |-> TRUE],
                                       !.i_p = IF resample THEN rnd.i_p ELSE rnd.i_p + 1]
                  IN rnd' = IF rnd.i_p = rnd.dim /\ ~resample THEN RandomFinish(r) ELSE r
    /\ UNCHANGED <<grid, uuid, call, fim, ese, sg, ct, lhs, sel, mrg, lvl>>

InitRnd ==
    /\ GridInit
    /\ fim = FimIdle
    /\ ese = [phase |-> "idle"]
    /\ sg = [phase |-> "idle"]
    /\ rnd = [phase |-> "idle"]
    /\ ct = [phase |-> "idle"]
    /\ lhs = [phase |-> "idle"]
    /\ sel = [phase |-> "idle"]
    /\ mrg = [phase |-> "idle"]
    /\ lvl = [phase |-> "idle"]

NextRnd ==
    \/ RandomConstruct
    \/ SeededDraw
    \/ ColumnDraw

SpecRnd == InitRnd /\ [][NextRnd]_vars

\* every entry of coords_norm is within the truncation bounds of its
\* parameter (beta: [-1, 1])
InBounds(r) ==
    \A j \in 1..Len(r.coords_norm), i_p \in 1..r.dim :
       LET par == r.parameters_random[i_p]
           x == r.coords_norm[j][i_p]
       IN IF par.pdf_type = "beta" THEN x >= -1 /\ x <= 1
          ELSE IF par.pdf_type = "norm"
          THEN x >= par.x_perc_norm[1] /\ x <= par.x_perc_norm[2]
          ELSE x <= par.x_perc_norm

OnePrefixOfOther(a, b) ==
    IF Len(a) <= Len(b) THEN Prefix(b, Len(a)) = a ELSE Prefix(a, Len(b)) = b

\* C13: for every seed given in options (0 included) the Random design of
\* k rows equals the first k rows of the design of n >= k rows built with
\* the same seed, and two designs of the same seed and size are equal.
C13_SeededPrefix ==
    (rnd.phase = "done" /\ rnd.builds > 1 /\ rnd.seed # NoSeed)
        => OnePrefixOfOther(rnd.first, rnd.coords_norm)


(***************************************************************************)
(* Grid.get_denormalized_coordinates and Grid.get_normalized_coordinates   *)
(* (Grid.py 153-224) on exact rationals.  A number is a pair <<n, d>> in   *)
(* lowest terms with d > 0; <<0, 0>> stands for the values inf and nan     *)
(* that numpy returns for a division by zero and for everything computed   *)
(* from them.                                                              *)
(***************************************************************************)
\* largest number of rows of a coordinate array
MaxRows == 2

RECURSIVE GCD(_, _)
GCD(a, b) == IF b = 0 THEN a ELSE GCD(b, a % b)

NotFinite == <<0, 0>>

Q(n, d) ==
    IF d = 0 THEN NotFinite
    ELSE LET g == GCD(Abs(n), Abs(d))
             sgn == IF d < 0 THEN -1 ELSE 1
         IN <<sgn * (n \div g), sgn * (d \div g)>>

QInt(n) == <<n, 1>>

QAdd(a, b) == IF a[2] = 0 \/ b[2] = 0 THEN NotFinite
              ELSE Q(a[1] * b[2] + b[1] * a[2], a[2] * b[2])

QSub(a, b) == IF a[2] = 0 \/ b[2] = 0 THEN NotFinite
              ELSE Q(a[1] * b[2] - b[1] * a[2], a[2] * b[2])

QMul(a, b) == IF a[2] = 0 \/ b[2] = 0 THEN NotFinite
              ELSE Q(a[1] * b[1], a[2] * b[2])

QDiv(a, b) == IF a[2] = 0 \/ b[2] = 0 \/ b[1] = 0 THEN NotFinite
              ELSE Q(a[1] * b[2], a[2] * b[1])

\* the parameters a grid of the model is built on: beta with pdf_limits
\* [min, max], norm with pdf_shape [mean, std], gamma with pdf_shape
\* [shape, rate, loc]; no constructor rejects equal limits, a std of 0 or a
\* rate of 0
ParameterChoices ==
    { [pdf_type |-> "beta", pdf_shape |-> <<1, 1>>, pdf_limits |-> <<0, 4>>],
      [pdf_type |-> "beta", pdf_shape |-> <<2, 5>>, pdf_limits |-> <<-1, 2>>],
      [pdf_type |-> "beta", pdf_shape |-> <<1, 1>>, pdf_limits |-> <<1, 1>>],
      [pdf_type |-> "norm", pdf_shape |-> <<3, 2>>, pdf_limits |-> <<0, 0>>],
      [pdf_type |-> "normal", pdf_shape |-> <<3, 0>>, pdf_limits |-> <<0, 0>>],
      [pdf_type |-> "gamma", pdf_shape |-> <<2, 3, 1>>, pdf_limits |-> <<0, 0>>],
      [pdf_type |-> "gamma", pdf_shape |-> <<2, 0, 1>>, pdf_limits |-> <<0, 0>>] }

\* the entries of the coordinate arrays handed to the two functions
Entries == {Q(-1, 1), Q(1, 2), Q(2, 1)}

\* one entry of get_denormalized_coordinates (Grid.py 171-185)
DenormQ(par, x) ==
    IF par.pdf_type = "beta"
    THEN QAdd(QMul(QDiv(QAdd(x, QInt(1)), QInt(2)),
                   QInt(par.pdf_limits[2] - par.pdf_limits[1])),
              QInt(par.pdf_limits[1]))
    ELSE IF par.pdf_type \in {"norm", "normal"}
    THEN QAdd(QMul(x, QInt(par.pdf_shape[2])), QInt(par.pdf_shape[1]))
    ELSE IF par.pdf_type = "gamma"
    THEN QAdd(QDiv(x, QInt(par.pdf_shape[2])), QInt(par.pdf_shape[3]))
    ELSE QInt(0)

\* a normalization of a beta column that forgets the shift by -1
NormQ_unshifted(par, c) ==
    IF par.pdf_type = "beta"
    THEN QMul(QDiv(QSub(c, QInt(par.pdf_limits[1])),
                   QInt(par.pdf_limits[2] - par.pdf_limits[1])),
              QInt(2))
    ELSE IF par.pdf_type \in {"norm", "normal"}
    THEN QDiv(QSub(c, QInt(par.pdf_shape[1])), QInt(par.pdf_shape[2]))
    ELSE IF par.pdf_type = "gamma"
    THEN QMul(QSub(c, QInt(par.pdf_shape[3])), QInt(par.pdf_shape[2]))
    ELSE QInt(0)

\* one entry of get_normalized_coordinates (Grid.py 208-222)
NormQ(par, c) ==
    IF par.pdf_type = "beta"
    THEN QSub(QMul(QDiv(QSub(c, QInt(par.pdf_limits[1])),
                        QInt(par.pdf_limits[2] - par.pdf_limits[1])),
                   QInt(2)),
              QInt(1))
    ELSE IF par.pdf_type \in {"norm", "normal"}
    THEN QDiv(QSub(c, QInt(par.pdf_shape[1])), QInt(par.pdf_shape[2]))
    ELSE IF par.pdf_type = "gamma"
    THEN QMul(QSub(c, QInt(par.pdf_shape[3])), QInt(par.pdf_shape[2]))
    ELSE QInt(0)

\* coords = np.zeros(coords_norm.shape), filled column by column
get_denormalized_coordinates_Q(parameters_random, coords_norm) ==
    [j \in 1..Len(coords_norm) |-> [i_p \in 1..Len(parameters_random) |->
        DenormQ(parameters_random[i_p], coords_norm[j][i_p])]]

\* coords_norm = np.zeros(coords.shape), filled column by column
get_normalized_coordinates(parameters_random, coords) ==
    [j \in 1..Len(coords) |-> [i_p \in 1..Len(parameters_random) |->
        NormQ(parameters_random[i_p], coords[j][i_p])]]

\* a grid (self: its parameters and its stored design) and an array x0;
\* nothing has been called
CTArrays(dim) == UNION {[1..n -> [1..dim -> Entries]] : n \in 1..MaxRows}

CTInputs ==
    {[phase |-> "ready", self |-> [parameters_random |-> ps, coords_norm |-> x0,
                                   n_grid |-> Len(x0)],
      x0 |-> x0, passed |-> <<>>, arg |-> <<>>, result |-> x0, ops |-> <<>>,
      self_before |-> [parameters_random |-> ps, coords_norm |-> x0, n_grid |-> Len(x0)]] :
        ps \in UNION {[1..dim -> ParameterChoices] : dim \in 1..2},
        x0 \in CTArrays(1) \cup CTArrays(2)}

\* result = self.get_denormalized_coordinates(arg), arg being x0 or the
\* result of the call before
CTDenormalize ==
    /\ ct.phase = "ready"
    /\ Len(ct.ops) < 2
    /\ LET arg == IF ct.ops = <<>> THEN ct.x0 ELSE ct.result
       IN ct' = [ct EXCEPT !.passed = arg,
                           !.arg = arg,
                           !.result = get_denormalized_coordinates_Q(ct.self.parameters_random, arg),
                           !.ops = Append(ct.ops, "denormalize"),
                           !.self_before = ct.self]
    /\ UNCHANGED <<grid, uuid, call, fim, ese, sg, rnd, lhs, sel, mrg, lvl>>

\* result = self.get_normalized_coordinates(arg)
CTNormalize ==
    /\ ct.phase = "ready"
    /\ Len(ct.ops) < 2
    /\ LET arg == IF ct.ops = <<>> THEN ct.x0 ELSE ct.result
       IN ct' = [ct EXCEPT !.passed = arg,
                           !.arg = arg,
                           !.result = get_normalized_coordinates(ct.self.parameters_random, arg),
                           !.ops = Append(ct.ops, "normalize"),
                           !.self_before = ct.self]
    /\ UNCHANGED <<grid, uuid, call, fim, ese, sg, rnd, lhs, sel, mrg, lvl>>

InitCT ==
    /\ GridInit
    /\ fim = FimIdle
    /\ ese = [phase |-> "idle"]
    /\ sg = [phase |-> "idle"]
    /\ rnd = [phase |-> "idle"]
    /\ ct \in {c \in CTInputs : Len(c.x0[1]) = Len(c.self.parameters_random)}
    /\ lhs = [phase |-> "idle"]
    /\ sel = [phase |-> "idle"]
    /\ mrg = [phase |-> "idle"]
    /\ lvl = [phase |-> "idle"]

NextCT ==
    \/ CTDenormalize
    \/ CTNormalize

SpecCT == InitCT /\ [][NextCT]_vars

\* the two functions were applied one after the other, in either order
RoundTripDone ==
    /\ ct.phase = "ready"
    /\ ct.ops \in {<<"denormalize", "normalize">>, <<"normalize", "denormalize">>}

\* the round trip gave back the array it started from
RoundTripIsIdentity == ct.result = ct.x0

\* a call left its argument and the attributes of the grid as they were
CallIsPure ==
    (ct.phase = "ready" /\ ct.ops # <<>>) =>
        /\ ct.arg = ct.passed
        /\ ct.self = ct.self_before

BetaLimitsDiffer ==
    \A i_p \in 1..Len(ct.self.parameters_random) :
       LET par == ct.self.parameters_random[i_p]
       IN par.pdf_type = "beta" => par.pdf_limits[1] # par.pdf_limits[2]

ScaleNotZero ==
    \A i_p \in 1..Len(ct.self.parameters_random) :
       LET par == ct.self.parameters_random[i_p]
       IN par.pdf_type \in {"norm", "normal", "gamma"} => par.pdf_shape[2] # 0

\* C14: for parameters of type beta (pdf_limits[0] != pdf_limits[1]), normal
\* and gamma, normalizing a denormalized array and denormalizing a
\* normalized array give the array back, column by column, and neither
\* function modifies its argument or an attribute of the grid.
C14_RoundTrip ==
    /\ CallIsPure
    /\ (RoundTripDone /\ BetaLimitsDiffer) => RoundTripIsIdentity

\* C14 as amended: the same for normal and gamma parameters whose
\* pdf_shape[1] (std, rate) is not 0.
C14_RoundTripNonZeroScale ==
    /\ CallIsPure
    /\ (RoundTripDone /\ BetaLimitsDiffer /\ ScaleNotZero) => RoundTripIsIdentity

\* a round trip over two rows of a grid with a beta and a gamma parameter
\* whose denormalized values are not integers
C14_Witness ==
    /\ RoundTripDone
    /\ BetaLimitsDiffer /\ ScaleNotZero
    /\ Len(ct.self.parameters_random) = 2
    /\ ct.self.parameters_random[1].pdf_type = "beta"
    /\ ct.self.parameters_random[2].pdf_type = "gamma"
    /\ Len(ct.x0) = 2
    /\ ct.ops[1] = "denormalize"
    /\ ct.passed[1][2][2] = 3
    /\ RoundTripIsIdentity


\* some entry of options["grid_type"] is not a rule family
HasUnknownGridType == \E i_p \in 1..sg.dim : sg.grid_type[i_p] = UnknownGridType

\* C15: a TensorGrid or SparseGrid whose grid_type has an entry that is not
\* a recognized rule family fails at construction with an error naming the
\* grid_type, and no grid (points, weights, IDs) is produced.
C15_UnknownGridTypeRaises ==
    /\ (sg.phase \in {"sparse", "both"} /\ HasUnknownGridType)
          => (sg.sparse.outcome = "AttributeError" /\ sg.sparse.n_grid = 0)
    /\ (sg.phase = "both" /\ HasUnknownGridType)
          => (sg.tensor.outcome = "AttributeError" /\ sg.tensor.n_grid = 0)


(***************************************************************************)
(* LHS.__init__, LHS.sample_init and LHS.get_lhs_grid (Grid.py 1276-1362,  *)
(* 1499-1541): which refinement a new LHS design is made with.  The        *)
(* parameters are beta parameters, whose icdf stays within the limits, so  *)
(* that the resampling loop of get_lhs_grid is left after one pass.        *)
(***************************************************************************)
\* largest n_grid of an LHS design
MaxLhs == 3

\* options: None ("None"), a dict without "criterion" ("no_key"), or a dict
\* whose "criterion" is the string or the one-element list of the string
CriterionOptions == {"None", "no_key", "corr", "maximin", "m", "ese", "other"}

\* self.criterion after LHS.__init__ (Grid.py 1289-1298), always a list
Criterion(option) ==
    IF option = "None" THEN <<"None">>
    ELSE IF option = "no_key" THEN <<"ese">>
    ELSE <<option>>

\* `a is 'literal'` for a string a: true only when a is the very object of
\* the literal, which holds for an equal string that the interpreter
\* interned and for no other object
Is(a, literal, interned) == a = literal /\ interned

\* `self.criterion is 'm'`: the list self.criterion is never the string
ListIsString == FALSE

\* the dispatch of get_lhs_grid (Grid.py 1513-1520)
Refinement(criterion, interned) ==
    IF Is(criterion[1], "corr", interned) THEN "lhs_corr"
    ELSE IF Is(criterion[1], "maximin", interned) \/ ListIsString THEN "lhs_maximin"
    ELSE IF Is(criterion[1], "ese", interned) THEN "lhs_ese"
    ELSE "lhs_initial"

\* LHS(parameters_random, n_grid, options, grid_pre) up to sample_init
LHSConstruct ==
    /\ lhs.phase = "idle"
    /\ \E option \in CriterionOptions, as_list \in BOOLEAN, interned \in BOOLEAN,
          n_grid \in 0..MaxLhs, n_pre \in 0..1 :
         /\ as_list => option \notin {"None", "no_key"}
         \* the default ["ese"] of the constructor is the literal itself
         /\ option \in {"None", "no_key"} => interned
         /\ lhs' = [phase |-> "init", option |-> option, as_list |-> as_list,
                    interned |-> interned,
                    criterion |-> Criterion(option),
                    n_grid |-> n_grid, n_pre |-> n_pre,
                    n_grid_lhs |-> 0, called |-> <<>>, n_rows |-> 0]
    /\ UNCHANGED <<grid, uuid, call, fim, ese, sg, rnd, ct, sel, mrg, lvl>>

\* sample_init up to the choice of the sampler (Grid.py 1313-1351)
LHSSampleInit ==
    /\ lhs.phase = "init"
    /\ lhs' = IF lhs.n_grid <= 0
              THEN [lhs EXCEPT !.phase = "done"]
              ELSE IF lhs.n_grid = 1
              THEN [lhs EXCEPT !.phase = "sampled",
                               !.called = <<"Random">>,
                               !.n_rows = 1]
              ELSE [lhs EXCEPT !.phase = "lhs",
                               !.n_grid_lhs = lhs.n_grid + lhs.n_pre]
    /\ UNCHANGED <<grid, uuid, call, fim, ese, sg, rnd, ct, sel, mrg, lvl>>

\* get_lhs_grid: one pass of the loop (every row within the limits), then
\* the first n_grid rows of the reservoir
LHSGetLhsGrid ==
    /\ lhs.phase = "lhs"
    /\ lhs' = [lhs EXCEPT !.phase = "sampled",
                          !.called = Append(lhs.called,
                                            Refinement(lhs.criterion, lhs.interned)),
                          !.n_rows = lhs.n_grid]
    /\ UNCHANGED <<grid, uuid, call, fim, ese, sg, rnd, ct, sel, mrg, lvl>>

\* the end of sample_init: coords and coords_id (Grid.py 1358-1362)
LHSFinish ==
    /\ lhs.phase = "sampled"
    /\ lhs' = [lhs EXCEPT !.phase = "done"]
    /\ UNCHANGED <<grid, uuid, call, fim, ese, sg, rnd, ct, sel, mrg, lvl>>

InitLHS ==
    /\ GridInit
    /\ fim = FimIdle
    /\ ese = [phase |-> "idle"]
    /\ sg = [phase |-> "idle"]
    /\ rnd = [phase |-> "idle"]
    /\ ct = [phase |-> "idle"]
    /\ lhs = [phase |-> "idle"]
    /\ sel = [phase |-> "idle"]
    /\ mrg = [phase |-> "idle"]
    /\ lvl = [phase |-> "idle"]

NextLHS ==
    \/ LHSConstruct
    \/ LHSSampleInit
    \/ LHSGetLhsGrid
    \/ LHSFinish

SpecLHS == InitLHS /\ [][NextLHS]_vars

\* the refinement the documentation (Grid.py 1226-1229) and the default
\* promise for an option
Promised(option) ==
    IF option \in {"None", "no_key", "ese"} THEN "lhs_ese"
    ELSE IF option = "corr" THEN "lhs_corr"
    ELSE "lhs_maximin"

\* C16: an LHS design of more than one point constructed without a
\* "criterion" option (options None, or a dict without the key) is refined
\* by lhs_ese; with criterion 'corr', 'maximin', 'm' or 'ese' it is refined
\* by the corresponding strategy, 'm' being 'maximin'.  (Checked for
\* criterion strings that are the objects of the source's literals.)
C16_CriterionDispatch ==
    (lhs.phase = "done" /\ lhs.n_grid > 1 /\ lhs.option # "other" /\ lhs.interned)
        => lhs.called = <<Promised(lhs.option)>>



(***************************************************************************)
(* Properties of Grid.create_gradient_grid on a design that has grown      *)
(***************************************************************************)
\* the design has stencils for its first points and more points than
\* stencils
StencilBehind(g) ==
    /\ g.has_gradient
    /\ Len(g.coords_gradient) = Len(g.coords_gradient_norm)
    /\ Len(g.coords_gradient) < Len(g.coords)

\* C18: when create_gradient_grid is called on a design whose stencil was
\* built for its first g points and which now has n > g points, the stencils
\* (coords_gradient and coords_gradient_norm) of the points 0..g-1 are
\* unchanged, stencils are computed for the points g..n-1 only, and afterwards
\* there is one dim x dim stencil per point and coords_gradient_id equals
\* coords_id.
C18_GradientFrame ==
    [][ (call'.op = "create_gradient_grid" /\ StencilBehind(grid))
          => LET g == Len(grid.coords_gradient)
                 n == Len(grid.coords)
             IN /\ call'.outcome = "ok"
                /\ SubSeq(grid'.coords_gradient, 1, g) = grid.coords_gradient
                /\ SubSeq(grid'.coords_gradient_norm, 1, g) = grid.coords_gradient_norm
                /\ Len(grid'.coords_gradient) = n
                /\ Len(grid'.coords_gradient_norm) = n
                /\ \A pt \in (g + 1)..n :
                     /\ grid'.coords_gradient_norm[pt] = StencilNorm(grid.coords_norm[pt])
                     /\ grid'.coords_gradient[pt] = StencilDenorm(StencilNorm(grid.coords_norm[pt]))
                /\ grid'.coords = grid.coords
                /\ grid'.coords_norm = grid.coords_norm
                /\ grid'.coords_gradient_id = grid'.coords_id ]_vars


(***************************************************************************)
(* Termination of the classifier-driven resampling loop                    *)
(***************************************************************************)
\* the builders whose branch of the resampling loop is missing: the loop has
\* branches for Random and LHS only (Grid.py 954-977)
SelectorBuilders == Extendable \ {"Random", "LHS"}

\* C20: every randomized refinement or selection loop terminates with a
\* design; in particular the classifier-driven resampling loop of
\* extend_random_grid ends for every extendable builder: a call with a
\* classifier that asks a selector or hybrid design for more points does
\* not run forever.
C20_ResamplingLoopEnds ==
    (/\ call.op = "extend"
     /\ call.a.has_n
     /\ call.a.has_classifier
     /\ call.n_before < call.a.n_grid_new
     /\ grid.cls \in SelectorBuilders)
        => call.outcome # "diverges"

(***************************************************************************)
(* L1.__init__ and FIM.__init__ with their selection loops and the worker  *)
(* pool (Grid.py 1954-2142, 2212-2319).  pool.map(f, chunks) makes one     *)
(* task per chunk; the workers take the tasks and put the results on the   *)
(* pool's result queue in the order they finish; pool.map blocks until     *)
(* every task has a result and returns the results by task index.  The     *)
(* coherence criteria of L1 are outside src/: a task's scores are values   *)
(* chosen for the round.                                                   *)
(***************************************************************************)
\* largest n_grid of a selector
MaxSel == 2

\* n_pool, and n_iter of the iteration method
MaxCand == 2

\* largest multiprocessing.cpu_count()
MaxCpu == 2

\* the normalized coordinates of the candidates of FIM
SelVals == {-1, 1}

\* the tasks of one pool.map call of round r
NewTasks(r, chunks) ==
    [k \in 1..Len(chunks) |-> [round |-> r, k |-> k, chunk |-> chunks[k],
                               state |-> "queued", result |-> <<>>]]

\* MapResult: every task of the call has delivered its result
MapDone(tasks, r) == \A t \in 1..Len(tasks) : tasks[t].round = r => tasks[t].state = "returned"

\* the results in the order of the result queue
ResultsAsCompleted(tasks, outqueue, r) ==
    LET mine == SelectSeq(outqueue, LAMBDA t : tasks[t].round = r)
    IN [j \in 1..Len(mine) |-> tasks[mine[j]].result]

\* the list pool.map returns: the results by task index
MapResults(tasks, outqueue, r) ==
    LET mine == SelectSeq([t \in 1..Len(tasks) |-> t], LAMBDA t : tasks[t].round = r)
    IN [j \in 1..Len(mine) |-> tasks[mine[j]].result]

\* np.argmin / np.argmax over the scores of a list of scored items
ArgBest(scored, lower_is_better) ==
    CHOOSE j \in 1..Len(scored) :
        /\ \A k \in 1..Len(scored) :
             IF lower_is_better THEN scored[j].score <= scored[k].score
             ELSE scored[j].score >= scored[k].score
        /\ \A k \in 1..(j - 1) : scored[k].score # scored[j].score

\* index_list_remaining = [k for k in range(self.n_pool) if k not in index_list]
Remaining(n_pool, index_list) ==
    SelectSeq([j \in 1..n_pool |-> j - 1],
              LAMBDA k : \A i \in 1..Len(index_list) : index_list[i] # k)

\* np.argmin(crit) of the greedy round (Grid.py 2075-2087): crit is 1e6 for
\* the chosen indices, replaced by the largest score; when all scores are
\* equal the normalization divides 0 by 0 and the argmin of the nan column
\* is 0
GreedyWinner(scored) ==
    IF \A j, k \in 1..Len(scored) : scored[j].score = scored[k].score
    THEN 0
    ELSE LET low == CHOOSE j \in 1..Len(scored) :
                       \A k \in 1..Len(scored) : scored[j].score <= scored[k].score
             best == {scored[j].item : j \in {k \in 1..Len(scored) :
                                                 scored[k].score = scored[low].score}}
         IN CHOOSE i \in best : \A k \in best : i <= k

SelIdle == [phase |-> "idle"]

\* L1(...) or FIM(...) up to the first pass of the selection loop
SelConstruct ==
    /\ sel.phase = "idle"
    /\ \E selector \in {"L1", "FIM"}, method \in {"greedy", "iteration"},
          n_grid \in (-1)..MaxSel, n_cpu \in 1..MaxCpu, idx \in 0..(MaxCand - 1),
          x0 \in SeqsOfLen(SelVals, 1) :
         /\ selector = "FIM" => method = "greedy" /\ idx = 0
         /\ method = "iteration" => idx = 0
         /\ LET base == [phase |-> "loop", selector |-> selector, method |-> method,
                         outcome |-> "running", n_grid |-> n_grid, n_pool |-> MaxCand,
                         n_iter |-> MaxCand, n_cpu |-> n_cpu,
                         i |-> 0, rounds |-> 0, items |-> <<>>, tasks |-> <<>>,
                         outqueue |-> <<>>, scored |-> <<>>, fim_matrix |-> ZeroMatrix,
                         index_list |-> <<>>, gpc_grid |-> <<>>, evaluated |-> 0,
                         coords_norm |-> <<>>, coords_norm_is_None |-> TRUE]
            IN sel' =
               IF selector = "L1" /\ n_grid <= 0
               \* no method runs; get_denormalized_coordinates(None)
               THEN [base EXCEPT !.phase = "done", !.outcome = "AttributeError"]
               ELSE IF selector = "L1" /\ method = "greedy"
               THEN [base EXCEPT !.index_list = <<idx>>, !.i = 1]
               ELSE IF selector = "L1"
               THEN base
               ELSE IF n_grid < 0
               \* np.zeros((n_grid_add, self.dim))
               THEN [base EXCEPT !.phase = "done", !.outcome = "ValueError",
                                 !.gpc_grid = x0]
               ELSE [base EXCEPT !.gpc_grid = x0]
    /\ UNCHANGED <<grid, uuid, call, fim, ese, sg, rnd, ct, lhs, mrg, lvl>>

\* the number of pool.map calls of the loop
MapCalls(r) ==
    IF r.selector = "FIM" THEN r.n_grid
    ELSE IF r.method = "greedy" THEN r.n_grid - 1
    ELSE 1

\* the head of one pass: the chunks are handed to pool.map
SelSubmit ==
    /\ sel.phase = "loop"
    /\ sel.rounds < MapCalls(sel)
    /\ \E grid_test \in SeqsOfLen(SelVals, sel.n_pool) :
         LET items == IF sel.selector = "FIM" THEN grid_test
                      ELSE IF sel.method = "greedy"
                      THEN Remaining(sel.n_pool, sel.index_list)
                      ELSE [j \in 1..sel.n_iter |-> j - 1]
             chunks == compute_chunks(items, sel.n_cpu)
         IN /\ sel.selector = "L1" => grid_test = [j \in 1..sel.n_pool |-> 1]
            /\ sel' = [sel EXCEPT !.phase = "map",
                                  !.items = items,
                                  !.fim_matrix = IF sel.selector = "FIM"
                                                 THEN calc_fim_matrix(create_gpc_matrix(sel.gpc_grid))
                                                 ELSE ZeroMatrix,
                                  !.tasks = sel.tasks \o NewTasks(sel.rounds + 1, chunks)]
    /\ UNCHANGED <<grid, uuid, call, fim, ese, sg, rnd, ct, lhs, mrg, lvl>>

\* a worker takes a task
WorkerStart ==
    /\ sel.phase = "map"
    /\ \E t \in 1..Len(sel.tasks) :
         /\ sel.tasks[t].state = "queued"
         /\ sel' = [sel EXCEPT !.tasks[t].state = "running"]
    /\ UNCHANGED <<grid, uuid, call, fim, ese, sg, rnd, ct, lhs, mrg, lvl>>

\* a worker finishes a task: workhorse_get_det_updated_fim_matrix,
\* workhorse_greedy or workhorse_iteration on the chunk
WorkerReturn ==
    /\ sel.phase = "map"
    /\ \E t \in 1..Len(sel.tasks) :
         LET chunk == sel.tasks[t].chunk IN
         /\ sel.tasks[t].state = "running"
         /\ \E crit \in SeqsOfLen(0..1, Len(chunk)) :
              LET dets == workhorse_get_det_updated_fim_matrix(chunk, sel.fim_matrix, 1)
                  result == [j \in 1..Len(chunk) |->
                               [item |-> chunk[j],
                                score |-> IF sel.selector = "FIM" THEN dets[j] ELSE crit[j]]]
              IN /\ sel.selector = "FIM" => crit = [j \in 1..Len(chunk) |-> 0]
                 /\ sel' = [sel EXCEPT !.tasks[t].state = "returned",
                                       !.tasks[t].result = result,
                                       !.outqueue = Append(@, t),
                                       !.evaluated = @ + Len(chunk)]
    /\ UNCHANGED <<grid, uuid, call, fim, ese, sg, rnd, ct, lhs, mrg, lvl>>

\* pool.map returns; the results are concatenated, the winner is chosen and
\* appended (Grid.py 2068-2089, 2121-2136, 2308-2315)
SelCollect ==
    /\ sel.phase = "map"
    /\ MapDone(sel.tasks, sel.rounds + 1)
    /\ LET scored == concatenate(MapResults(sel.tasks, sel.outqueue, sel.rounds + 1), 1)
           \* the results have been taken from the queue and from the tasks
           r == [sel EXCEPT !.phase = "loop", !.rounds = @ + 1,
                            !.scored = scored,
                            !.outqueue = <<>>,
                            !.tasks = [t \in 1..Len(sel.tasks) |->
                                          [sel.tasks[t] EXCEPT !.chunk = <<>>,
                                                               !.result = <<>>]]]
       IN sel' =
          IF sel.selector = "FIM"
          THEN LET coords_opt == scored[ArgBest(scored, FALSE)].item
               IN [r EXCEPT !.i = @ + 1,
                            !.gpc_grid = vstack(@, <<coords_opt>>),
                            !.coords_norm = Append(@, coords_opt)]
          ELSE IF sel.method = "greedy"
          THEN [r EXCEPT !.i = @ + 1,
                         !.index_list = Append(@, GreedyWinner(scored))]
          ELSE [r EXCEPT !.index_list = <<scored[ArgBest(scored, TRUE)].item>>]
    /\ UNCHANGED <<grid, uuid, call, fim, ese, sg, rnd, ct, lhs, mrg, lvl>>

\* the loop is over: self.coords_norm, self.coords and the IDs
SelFinish ==
    /\ sel.phase = "loop"
    /\ sel.rounds >= MapCalls(sel)
    /\ sel' = [sel EXCEPT !.phase = "done", !.outcome = "ok",
                          !.coords_norm_is_None = FALSE]
    /\ UNCHANGED <<grid, uuid, call, fim, ese, sg, rnd, ct, lhs, mrg, lvl>>

InitSel ==
    /\ GridInit
    /\ fim = FimIdle
    /\ ese = [phase |-> "idle"]
    /\ sg = [phase |-> "idle"]
    /\ rnd = [phase |-> "idle"]
    /\ ct = [phase |-> "idle"]
    /\ lhs = [phase |-> "idle"]
    /\ sel = [phase |-> "idle"]
    /\ mrg = [phase |-> "idle"]
    /\ lvl = [phase |-> "idle"]

NextSel ==
    \/ SelConstruct
    \/ SelSubmit
    \/ WorkerStart
    \/ WorkerReturn
    \/ SelCollect
    \/ SelFinish

SpecSel == InitSel /\ [][NextSel]_vars

\* C17: constructing an L1 (greedy or iteration) or FIM selector with
\* n_grid <= 0 completes without error, evaluates no candidate pool and
\* yields a design with zero selected points.
C17_NonPositiveIsNoOp ==
    (sel.phase = "done" /\ sel.n_grid <= 0)
        => /\ sel.outcome = "ok"
           /\ sel.evaluated = 0
           /\ sel.coords_norm = <<>>
           /\ sel.index_list = <<>>


\* the number of winners appended by the rounds completed so far
Winners(r) ==
    IF r.selector = "FIM" THEN Len(r.coords_norm) ELSE Len(r.index_list) - 1

\* the selector runs rounds: FIM, or L1 with the greedy method
RoundSelector ==
    /\ sel.phase \in {"loop", "map", "done"}
    /\ sel.outcome \in {"running", "ok"}
    /\ sel.selector = "FIM" \/ sel.method = "greedy"

\* C19: in the greedy L1 and FIM selectors no worker of round r+1 starts
\* before every worker of round r has returned and the winner of round r
\* has been appended, and the partial results of a round are concatenated
\* in the order the chunks were submitted: the score at position i is that
\* of the i-th submitted candidate.
C19_RoundsSerialized ==
    RoundSelector =>
        /\ \A t \in 1..Len(sel.tasks) :
             sel.tasks[t].state # "queued" =>
                /\ \A u \in 1..Len(sel.tasks) :
                     sel.tasks[u].round < sel.tasks[t].round
                        => sel.tasks[u].state = "returned"
                /\ Winners(sel) >= sel.tasks[t].round - 1
        /\ \A t \in 1..Len(sel.tasks) :
             sel.tasks[t].state # "returned" => sel.tasks[t].round = sel.rounds + 1
        /\ Winners(sel) = sel.rounds
        /\ (sel.rounds > 0 /\ sel.phase # "map") =>
              /\ Len(sel.scored) = Len(sel.items)
              /\ \A i \in 1..Len(sel.items) : sel.scored[i].item = sel.items[i]

\* the second round's tasks have all returned, the second task before the
\* first one with another result, and pool.map gives the scores in the
\* order of the candidates
C19_Witness ==
    /\ RoundSelector
    /\ sel.phase = "map"
    /\ sel.rounds = 1
    /\ sel.n_cpu = 2
    /\ MapDone(sel.tasks, 2)
    /\ Len(sel.outqueue) = 2
    /\ sel.outqueue[1] > sel.outqueue[2]
    /\ sel.tasks[sel.outqueue[1]].result # sel.tasks[sel.outqueue[2]].result
    /\ \A i \in 1..Len(sel.items) :
          concatenate(MapResults(sel.tasks, sel.outqueue, 2), 1)[i].item = sel.items[i]

\* C26: in greedy L1 selection with n_grid <= n_pool every round picks a
\* pool index that has not been chosen before, also when all remaining
\* candidates have equal criterion values: the n_grid returned rows are
\* rows of the candidate pool at pairwise distinct indices, and each chosen
\* index has the lowest score among the candidates that remained.
C26_GreedyPicksDistinct ==
    (/\ sel.phase \in {"loop", "done"}
     /\ sel.selector = "L1"
     /\ sel.method = "greedy"
     /\ sel.n_grid >= 1
     /\ sel.n_grid <= sel.n_pool)
        => /\ \A a, b \in 1..Len(sel.index_list) :
                a # b => sel.index_list[a] # sel.index_list[b]
           /\ \A a \in 1..Len(sel.index_list) : sel.index_list[a] \in 0..(sel.n_pool - 1)
           /\ sel.phase = "done" => Len(sel.index_list) = sel.n_grid
           /\ sel.rounds >= 1 =>
                \E j \in 1..Len(sel.scored) :
                   /\ sel.scored[j].item = sel.index_list[Len(sel.index_list)]
                   /\ \A k \in 1..Len(sel.scored) : sel.scored[j].score <= sel.scored[k].score

\* C27: constructing a new LHS, L1, L1_LHS, LHS_L1 or FIM design with
\* grid_pre = G leaves G unchanged: G.coords, G.coords_norm, G.n_grid and
\* G.coords_id are after the constructor returns what they were before,
\* also when the selector's gpc.grid is the same object as G.
C27_GridPreUnchanged ==
    grid.cls \in {"LHS", "L1", "L1_LHS", "LHS_L1", "FIM"} =>
        \A n_grid \in 1..MaxAdd :
           \A rows \in SeqsOfLen(SampleRows, n_grid) :
              LET G == NewGrid(grid, n_grid, rows).pre
              IN /\ G.coords = grid.coords
                 /\ G.coords_norm = grid.coords_norm
                 /\ G.n_grid = grid.n_grid
                 /\ G.coords_id = grid.coords_id

\* C29: create_gradient_grid is idempotent when no point was added in
\* between: a second call with the same delta leaves coords_gradient,
\* coords_gradient_norm, coords_gradient_id and n_grid_gradient equal to
\* their values after the first call.
C29_GradientGridIdempotent ==
    [][ (/\ call.op = "create_gradient_grid"
         /\ call.outcome = "ok"
         /\ call'.op = "create_gradient_grid")
        => /\ call'.outcome = "ok"
           /\ grid'.coords_gradient = grid.coords_gradient
           /\ grid'.coords_gradient_norm = grid.coords_gradient_norm
           /\ grid'.coords_gradient_id = grid.coords_gradient_id
           /\ grid'.n_grid_gradient = grid.n_grid_gradient ]_vars

\* C30: for a Random design built with a non-zero seed in its options,
\* extend_random_grid(n_grid_new = n + k) with k <= n and no classifier
\* seeds the global generator again with the same seed, so the k appended
\* rows are equal to rows 0..k-1 of the design as originally built: the
\* extension replays the stream instead of continuing it.
C30_ExtensionReplaysStream ==
    (/\ rnd.phase = "done"
     /\ rnd.builds = 2
     /\ SeedTruthy(rnd.seed)
     /\ rnd.n_grid <= Len(rnd.first))
        => /\ rnd.coords_norm = Prefix(rnd.first, rnd.n_grid)
           /\ rnd.pos <= Len(rnd.tape)
           /\ vstack(rnd.first, rnd.coords_norm)
                = [j \in 1..(Len(rnd.first) + rnd.n_grid) |->
                     IF j <= Len(rnd.first) THEN rnd.first[j]
                     ELSE rnd.first[j - Len(rnd.first)]]

\* a seeded design of two different rows over two parameters, and the
\* design of one row that extend_random_grid builds to extend it by one
C30_Witness ==
    /\ rnd.phase = "done"
    /\ rnd.builds = 2
    /\ rnd.seed = 1
    /\ rnd.dim = 2
    /\ rnd.n_grid = 1
    /\ Len(rnd.first) = 2
    /\ rnd.first[1] # rnd.first[2]
    /\ rnd.coords_norm = <<rnd.first[1]>>

====
